---- MODULE Spec2Model ----
(***************************************************************************)
(* A model of the training-loop orchestration of OpenNMT-py (Unbabel       *)
(* fork): onmt/Trainer.py (Statistics, Trainer, EarlyStoppingTrainer,      *)
(* EarlyStopping), its driver train.py, and the sharded loss of            *)
(* onmt/Loss.py.                                                           *)
(*                                                                         *)
(* Seven specifications are given over one set of variables:               *)
(*   SpecPatience   the EarlyStopping object on its own, called with any   *)
(*                  sequence of validation scores;                         *)
(*   Spec           construction of a trainer and the epochs of            *)
(*                  train_model with the simple Trainer: Trainer.train     *)
(*                  with Trainer._gradient_accumulation, the validation    *)
(*                  and the checkpoint of the end of the epoch;            *)
(*   SpecEarlyStop  train_model with either trainer: Trainer.train or      *)
(*                  EarlyStoppingTrainer.train with Trainer.validate and   *)
(*                  the patience, and the end of the epoch in train_model; *)
(*   SpecStats      Statistics.update, accuracy and ppl on their own;      *)
(*   SpecLoss       one call of MemoryEfficientLoss.loss, with             *)
(*                  shardVariables and collectGrads;                       *)
(*   SpecAccum      one call of _gradient_accumulation of Trainer or of    *)
(*                  APETrainer on a group of batches;                      *)
(*   SpecIter       one DatasetLazyIter of train.py, consumed by the loop  *)
(*                  of Trainer.train or of Trainer.validate.               *)
(*                                                                         *)
(* Scores are perplexities; a score s of the program is the integer 2*s    *)
(* in SpecPatience (5.0 is 10, 4.5 is 9), and the exponent of              *)
(* Statistics.ppl in SpecEarlyStop; both keep the order of the scores.     *)
(***************************************************************************)
EXTENDS Integers, Sequences, FiniteSets

(***************************************************************************)
(* Bounds of the model.                                                    *)
(***************************************************************************)
\* the longest sequence of observations made of one EarlyStopping object
MaxObs == 5
\* the most updates made of one Statistics object
MaxUpdates == 3
\* the largest configured tolerance
MaxTol == 2
\* the largest number of batches the training iterator delivers in an epoch
MaxBatches == 4
\* the largest grad_accum_count
MaxAccum == 3
\* the number of epochs train_model runs
MaxEpochs == 2
\* the most rows a tensor handed to the loss has along its first axis, and
\* the largest max_generator_batches
MaxLen == 3
\* the significant bits of a float of the model, where the double of the
\* program has 53
FloatBits == 20

(***************************************************************************)
(* Input domains.                                                          *)
(***************************************************************************)
\* validation scores (twice the perplexity): 4.0, 4.5, 5.0, 6.0
Scores == {8, 9, 10, 12}
\* float("inf"), above every score
Inf == 1000
Tolerances == 1 .. MaxTol
\* opt.accum_count, the invalid values 0 and -1 included
AccumCounts == -1 .. MaxAccum
\* opt.truncated_decoder: 0 disables truncation; 2 divides the longer
\* targets of BatchPool or leaves one timestep over, 3 leaves the last
\* window of a target of length 5 narrower than the others
TruncSizes == {0, 2, 3}
\* the batches the training iterator may deliver: target_size is
\* batch.tgt.size(0) (a target holds at least <s> and </s>), num_tokens the
\* non-padding entries of batch.tgt[1:], src_words the sum of the source
\* lengths
BatchPool ==
    { [target_size |-> 2, batch_size |-> 1, num_tokens |-> 1, src_words |-> 3],
      [target_size |-> 4, batch_size |-> 2, num_tokens |-> 5, src_words |-> 4],
      [target_size |-> 5, batch_size |-> 2, num_tokens |-> 8, src_words |-> 7] }
NormMethods == {"sents", "tokens"}
\* opt.report_every
ReportEvery == {1, 2}
TrainerClasses == {"Trainer", "EarlyStoppingTrainer",
                   "LanguageModelTrainer", "APETrainer"}
\* opt.earlystop_after_batches
StartVals == {1, 2}
\* the batches an epoch of an early-stopping run holds
TrainSizes == {0, 1, 2, 3}
\* the batches an epoch of an early-stopping run draws from
EarlyStopBatches == {b \in BatchPool : b.target_size < 5}
\* the batches the validation iterator holds
ValidSizes == {2}
\* the loss per target word the model may have on the validation set
ValidLosses == {8, 10}

\* the two classes named Statistics
StatClasses == {"onmt.Trainer.Statistics", "onmt.Loss.Statistics"}

IMPROVING == "IMPROVING"
DECREASING == "DECREASING"
STOPPED == "STOPPED"

VARIABLES
    \* ---- configuration (the constructor's arguments, opt) ----
    cls,                \* the class constructed
    grad_accum_count,
    trunc_size,
    norm_method,
    report_every,
    start_val_arg,      \* opt.earlystop_after_batches
    valid_iter,         \* the valid_iter argument of train: None or a builder
    n_valid,            \* the number of batches a validation iterator holds
    \* ---- Trainer ----
    trainer,            \* the attributes __init__ sets from its arguments
    pc,                 \* where the driver / Trainer.train stands
    model_mode,         \* "unset" until the trainer calls model.train()/eval()
    progress_step,      \* self.progress_step
    epoch,              \* train_model's loop variable
    \* ---- locals of Trainer.train ----
    total_stats,
    report_stats,
    idx,
    true_batchs,
    accum,
    normalization,
    n_batches,          \* the number of batches train_iter holds
    seen,               \* batches delivered by train_iter in this call
    \* ---- locals of Trainer._gradient_accumulation ----
    ga_ret,             \* which call site of train called it
    ga_k,               \* index of the batch of true_batchs being processed
    ga_j,               \* the window start j of range(0, target_size-1, trunc)
    dec_state,
    \* ---- the model's parameters and the optimizer ----
    grad,               \* contributions accumulated in the parameters' .grad
    applied,            \* the gradient each optimizer step of this call used
    events,             \* zero_grad / forward / backward / step of this call
    groups,             \* the batch lists handed to _gradient_accumulation
    loss_calls,         \* the arguments of each sharded_compute_loss call
    reports,            \* the calls of report_func: argument and result
    \* ---- EarlyStoppingTrainer and validate ----
    current_batches_processed,
    valid_stats_epoch,  \* the local list of EarlyStoppingTrainer.train
    val_ret,            \* who called validate: train or train_model
    val_k,              \* validation batches evaluated in this validate call
    val_stats,          \* the local stats of validate
    val_q,              \* the model's loss per target word in this validation
    val_log,            \* one record for each mid-epoch validation
    checkpoints,        \* the calls of drop_checkpoint
    \* ---- a Statistics object on its own ----
    stat_class,         \* onmt.Trainer.Statistics or onmt.Loss.Statistics
    stat_self,          \* the receiver of update
    stat_arg,           \* the argument of the next update
    stat_hist,          \* the arguments of the updates made
    stat_init,          \* the receiver before its first update
    stat_ret,           \* the outcome of the last call of accuracy or ppl
                        \* made since the last update
    \* ---- a call of MemoryEfficientLoss.loss ----
    me_loss,            \* self: eval, max_batches and the enabled loss terms
    me_batch,           \* batch: tgt[1:], alignment[1:], batchSize
    me_outputs,         \* outputs
    me_attns,           \* attns
    original,           \* the variable set
    shards,             \* the shards of shardVariables
    dummies,            \* the per-call copies, with their gradients
    shard_i,            \* the shard the loop is at
    me_stats,           \* stats
    me_events,          \* losses computed and backward passes, in order
    me_ret,             \* what loss returned
    \* ---- a DatasetLazyIter and the loop that consumes it ----
    datasets,           \* the number of batches of each dataset, in the
                        \* order the generator of datasets yields them
    dataset_iter,       \* the datasets taken from the generator so far
    is_train,           \* the training iterator or the validation iterator
    cur_dataset,        \* self.cur_dataset: the position of the dataset
    cur_iter,           \* self.cur_iter: the dataset and the next batch
    delivered,          \* the batches yielded, each with what
                        \* get_cur_dataset() returned when it was yielded
    loss_cur_dataset,   \* cur_dataset of the consumer's loss
    scored,             \* the batches handed to the loss, each with the
                        \* cur_dataset of the loss at that moment
    \* ---- EarlyStopping ----
    tolerance,
    current_tolerance,
    best_score,
    status,
    best_saves,         \* calls of trainer.drop_best_earlystopping
    obs,                \* the scores observed, in order
    hist                \* status and current_tolerance after each observation

cfgVars == <<cls, grad_accum_count, trunc_size, norm_method, report_every,
             start_val_arg, valid_iter, n_valid>>
trainVars == <<trainer, pc, model_mode, progress_step, epoch, total_stats,
               report_stats, idx, true_batchs, accum, normalization,
               n_batches, seen>>
gaVars == <<ga_ret, ga_k, ga_j, dec_state>>
optVars == <<grad, applied, events, groups>>
logVars == <<loss_calls, reports>>
esVars == <<current_batches_processed, valid_stats_epoch, val_ret, val_k,
            val_stats, val_q, val_log, checkpoints>>
patienceVars == <<tolerance, current_tolerance, best_score, status,
                  best_saves, obs, hist>>
statVars == <<stat_class, stat_self, stat_arg, stat_hist, stat_init,
              stat_ret>>
lossVars == <<me_loss, me_batch, me_outputs, me_attns, original, shards,
              dummies, shard_i, me_stats, me_events, me_ret>>
iterVars == <<datasets, dataset_iter, is_train, cur_dataset, cur_iter,
              delivered, loss_cur_dataset, scored>>
vars == <<cfgVars, trainVars, gaVars, optVars, logVars, esVars, statVars,
          lossVars, iterVars, patienceVars>>

\* no call of MemoryEfficientLoss.loss is modelled
LossIdle ==
    /\ me_loss = "None"
    /\ me_batch = "None"
    /\ me_outputs = "None"
    /\ me_attns = "None"
    /\ original = "None"
    /\ shards = <<>>
    /\ dummies = "None"
    /\ shard_i = 0
    /\ me_stats = "None"
    /\ me_events = <<>>
    /\ me_ret = "None"

\* self.cur_iter = None
NoIter == [dataset |-> 0, batch |-> 0]

\* no DatasetLazyIter is modelled
IterIdle ==
    /\ datasets = <<>>
    /\ dataset_iter = 0
    /\ is_train = FALSE
    /\ cur_dataset = 0
    /\ cur_iter = NoIter
    /\ delivered = <<>>
    /\ loss_cur_dataset = 0
    /\ scored = <<>>

Last(s) == s[Len(s)]

(***************************************************************************)
(* Floats.  self.loss and self.reg are Python floats (a window's loss is   *)
(* loss.data[0], Loss.py:143), that is IEEE doubles: 53 significant bits,  *)
(* every sum rounded to the nearest double, a tie to the one whose last    *)
(* bit is 0.  Up to 2 ** 53 every integer is a double and the sum of two   *)
(* is exact; from there on the doubles are 2 apart, from 2 ** 54 on 4      *)
(* apart, and so on, and a sum in between is rounded.  The floats of the   *)
(* model are the same with FloatBits in the place of 53: a loss below      *)
(* 2 ** FloatBits and the sums that stay below are those of the program,   *)
(* and a loss 2 ** FloatBits + m stands for the double 2 ** 53 + m, whose  *)
(* sums round the same way.                                                *)
(***************************************************************************)
\* the first float whose successor is 2 away
FloatExact == 2 ^ FloatBits

\* the distance from the float x, or from the float below an integer x, to
\* the next one (x >= 0)
RECURSIVE FloatSpacing(_)
FloatSpacing(x) == IF x < FloatExact THEN 1 ELSE 2 * FloatSpacing(x \div 2)

\* the float nearest to the integer x >= 0, the even one of two that are
\* equally near
FloatRound(x) ==
    LET u == FloatSpacing(x)
        q == x \div u
        r == x % u
    IN IF 2 * r > u \/ (2 * r = u /\ q % 2 = 1) THEN (q + 1) * u ELSE q * u

\* a + b of two floats: the exact sum, rounded to the nearest float
float_add(a, b) ==
    LET x == a + b
    IN IF x < 0 THEN 0 - FloatRound(0 - x) ELSE FloatRound(x)

(***************************************************************************)
(* Statistics (onmt/Trainer.py)                                            *)
(***************************************************************************)
\* Statistics(): loss=0, n_words=0, n_correct=0, and n_src_words = 0,
\* n_mt_words = 0 (start_time is left out: no claim reads the clock)
Statistics ==
    [loss |-> 0, n_words |-> 0, n_correct |-> 0, n_src_words |-> 0,
     n_mt_words |-> 0]

\* Statistics.update keeping the word count of the argument only
Statistics_update_LastWords(self, stat) ==
    [self EXCEPT !.loss = float_add(@, stat.loss),
                 !.n_words = stat.n_words,
                 !.n_correct = @ + stat.n_correct]

\* Statistics.update assigning the loss instead of adding it
Statistics_update_Overwrite(self, stat) ==
    [self EXCEPT !.loss = stat.loss,
                 !.n_words = @ + stat.n_words,
                 !.n_correct = @ + stat.n_correct]

\* Statistics.update forgetting the correct predictions
Statistics_update_NoCorrect(self, stat) ==
    [self EXCEPT !.loss = float_add(@, stat.loss),
                 !.n_words = @ + stat.n_words]

\* Statistics.update: loss, n_words and n_correct are summed, the loss as
\* a float and the counts as integers
Statistics_update(self, stat) ==
    [self EXCEPT !.loss = float_add(@, stat.loss),
                 !.n_words = @ + stat.n_words,
                 !.n_correct = @ + stat.n_correct]

\* Statistics() of onmt/Loss.py: loss=0, reg=0, n_words=0, n_correct=0, and
\* n_src_words = 0
Loss_Statistics ==
    [loss |-> 0, reg |-> 0, n_words |-> 0, n_correct |-> 0, n_src_words |-> 0]

\* Statistics.update of onmt/Loss.py: loss, reg, n_words and n_correct are
\* summed, loss and reg as floats
Loss_Statistics_update(self, stat) ==
    [self EXCEPT !.loss = float_add(@, stat.loss),
                 !.reg = float_add(@, stat.reg),
                 !.n_words = @ + stat.n_words,
                 !.n_correct = @ + stat.n_correct]

\* the outcome of a call: the exception raised or the value returned, a
\* quotient num / den of two integers (accuracy) or exp of it (ppl)
NoCall == [op |-> "none", raised |-> "None", num |-> 0, den |-> 1]
Raise(exc) == [op |-> "call", raised |-> exc, num |-> 0, den |-> 1]
Return(num, den) == [op |-> "call", raised |-> "None", num |-> num,
                     den |-> den]

\* accuracy returning 0 for an object without words
Statistics_accuracy_ZeroDefault(self) ==
    IF self.n_words = 0 THEN Return(0, 1)
    ELSE Return(100 * self.n_correct, self.n_words)

\* Statistics.accuracy: 100 * (self.n_correct / self.n_words), in
\* onmt/Loss.py 100 * (self.n_correct / float(self.n_words)); the division
\* raises ZeroDivisionError for n_words == 0
Statistics_accuracy(self) ==
    IF self.n_words = 0 THEN Raise("ZeroDivisionError")
    ELSE Return(100 * self.n_correct, self.n_words)

\* the exponent without the cap
ppl_exponent_NoClamp(loss, n_words) == [num |-> loss, den |-> n_words]

\* min(self.loss / self.n_words, 100), for n_words > 0, as a quotient
ppl_exponent(loss, n_words) ==
    IF loss < 100 * n_words THEN [num |-> loss, den |-> n_words]
                            ELSE [num |-> 100, den |-> 1]

\* Statistics.ppl: math.exp(min(self.loss / self.n_words, 100)), given by
\* its exponent; the division raises ZeroDivisionError for n_words == 0
Statistics_ppl_call(self) ==
    IF self.n_words = 0 THEN Raise("ZeroDivisionError")
    ELSE LET e == ppl_exponent(self.loss, self.n_words)
         IN Return(e.num, e.den)

(***************************************************************************)
(* EarlyStopping                                                           *)
(***************************************************************************)
\* EarlyStopping.__init__
EarlyStopping_init(tol) ==
    /\ tolerance' = tol
    /\ current_tolerance' = tol
    /\ best_score' = Inf
    /\ status' = IMPROVING
    /\ best_saves' = 0
    /\ obs' = <<>>
    /\ hist' = <<>>

\* PatienceStatus with the test against 0 off by one
PatienceStatus_OffByOne(tol) == IF tol >= 0 THEN DECREASING ELSE STOPPED

\* PatienceStatus stopping at 0 only, not below
PatienceStatus_ZeroOnly(tol) == IF tol # 0 THEN DECREASING ELSE STOPPED

\* the status the else branch of __call__ assigns
PatienceStatus(tol) == IF tol > 0 THEN DECREASING ELSE STOPPED

\* __call__ forgetting to reset the tolerance on a new best
EarlyStopping_call_NoReset(score) ==
    /\ IF score < best_score
         THEN /\ best_saves' = best_saves + 1
              /\ current_tolerance' = current_tolerance
              /\ best_score' = score
              /\ status' = IMPROVING
         ELSE /\ current_tolerance' =
                    IF score > best_score THEN current_tolerance - 1
                                          ELSE current_tolerance
              /\ status' = PatienceStatus(current_tolerance')
              /\ UNCHANGED <<best_score, best_saves>>
    /\ obs' = Append(obs, score)
    /\ hist' = Append(hist, [status |-> status',
                             tolerance |-> current_tolerance'])
    /\ UNCHANGED tolerance

\* __call__ counting an equal score as a worse one
EarlyStopping_call_EqualIsWorse(score) ==
    /\ IF score < best_score
         THEN /\ best_saves' = best_saves + 1
              /\ current_tolerance' = tolerance
              /\ best_score' = score
              /\ status' = IMPROVING
         ELSE /\ current_tolerance' = current_tolerance - 1
              /\ status' = PatienceStatus(current_tolerance')
              /\ UNCHANGED <<best_score, best_saves>>
    /\ obs' = Append(obs, score)
    /\ hist' = Append(hist, [status |-> status',
                             tolerance |-> current_tolerance'])
    /\ UNCHANGED tolerance

\* __call__ testing the tolerance before it is decremented
EarlyStopping_call_StaleTolerance(score) ==
    /\ IF score < best_score
         THEN /\ best_saves' = best_saves + 1
              /\ current_tolerance' = tolerance
              /\ best_score' = score
              /\ status' = IMPROVING
         ELSE /\ current_tolerance' =
                    IF score > best_score THEN current_tolerance - 1
                                          ELSE current_tolerance
              /\ status' = PatienceStatus(current_tolerance)
              /\ UNCHANGED <<best_score, best_saves>>
    /\ obs' = Append(obs, score)
    /\ hist' = Append(hist, [status |-> status',
                             tolerance |-> current_tolerance'])
    /\ UNCHANGED tolerance

\* __call__ saving the best model on a score equal to the best one
EarlyStopping_call_SavesOnTie(score) ==
    /\ IF score <= best_score
         THEN /\ best_saves' = best_saves + 1
              /\ current_tolerance' = tolerance
              /\ best_score' = score
              /\ status' = IMPROVING
         ELSE /\ current_tolerance' = current_tolerance - 1
              /\ status' = PatienceStatus(current_tolerance')
              /\ UNCHANGED <<best_score, best_saves>>
    /\ obs' = Append(obs, score)
    /\ hist' = Append(hist, [status |-> status',
                             tolerance |-> current_tolerance'])
    /\ UNCHANGED tolerance

\* EarlyStopping.__call__ with early_stopping_scorer(valid_stats) = score
EarlyStopping_call(score) ==
    /\ IF score < best_score
         THEN /\ best_saves' = best_saves + 1
              /\ current_tolerance' = tolerance
              /\ best_score' = score
              /\ status' = IMPROVING
         ELSE /\ current_tolerance' =
                    IF score > best_score THEN current_tolerance - 1
                                          ELSE current_tolerance
              /\ status' = PatienceStatus(current_tolerance')
              /\ UNCHANGED <<best_score, best_saves>>
    /\ obs' = Append(obs, score)
    /\ hist' = Append(hist, [status |-> status',
                             tolerance |-> current_tolerance'])
    /\ UNCHANGED tolerance

\* EarlyStopping.is_improving / has_stopped
is_improving == status = IMPROVING
has_stopped == status = STOPPED

(***************************************************************************)
(* The model's parameters and the optimizer, as the trainer drives them.   *)
(* A gradient is the sequence of the backward passes summed into it, each  *)
(* named by its epoch, batch index and window start.                       *)
(***************************************************************************)
Ev(op, i, j) == [op |-> op, i |-> i, j |-> j]

\* dec_state = None
NoState == [i |-> -1, j |-> -1, detached |-> FALSE]

\* the dec_state self.model(...) returns for the window j of the batch i:
\* a state that carries the graph of the window, or None
model_dec_state(i, j, returned) ==
    IF returned THEN [i |-> i, j |-> j, detached |-> FALSE] ELSE NoState

\* the end of a window leaving the state attached to its graph
detach_NoOp(st) == st

\* if dec_state is not None: dec_state.detach()
detach(st) == IF st # NoState THEN [st EXCEPT !.detached = TRUE] ELSE st

\* the effect of one operation on the parameters' gradient and on the list
\* of gradients the optimizer has applied: model.zero_grad(), the backward
\* pass inside train_loss.sharded_compute_loss, optim.step()
ExecOp(e, st) ==
    CASE e.op = "zero_grad" -> [st EXCEPT !.grad = <<>>]
      [] e.op = "backward"  ->
            [st EXCEPT !.grad = Append(@, <<epoch, e.i, e.j>>)]
      [] e.op = "step"      -> [st EXCEPT !.applied = Append(@, st.grad)]
      [] OTHER              -> st

RECURSIVE Exec(_, _)
Exec(ops, st) ==
    IF ops = <<>> THEN st ELSE Exec(Tail(ops), ExecOp(Head(ops), st))

\* the statistics train_loss.sharded_compute_loss returns for the window
\* starting at j: the targets scored are batch.tgt[j + 1 : j + trunc]
sharded_compute_loss(batch, j, trunc) ==
    LET last == IF j + trunc < batch.target_size THEN j + trunc
                                                 ELSE batch.target_size
        n == batch.batch_size * (last - (j + 1))
    IN [loss |-> 3 * n, n_words |-> n, n_correct |-> n \div 2,
        n_src_words |-> 0, n_mt_words |-> 0]

(***************************************************************************)
(* Trainer.__init__ and the constructors of its subclasses                 *)
(***************************************************************************)
\* the parameters of EarlyStoppingTrainer.__init__ after fields, in order,
\* and their defaults; Trainer.__init__ has the first six after optim
TrainerParams ==
    <<"trunc_size", "shard_size", "data_type", "norm_method",
      "grad_accum_count", "elmo", "start_val_after_batches">>

TrainerDefaults ==
    [trunc_size |-> 0, shard_size |-> 32, data_type |-> "text",
     norm_method |-> "sents", grad_accum_count |-> 1, elmo |-> FALSE,
     start_val_after_batches |-> 1000]

\* positional arguments bound to the parameters, the rest defaulted
BindPositional(args) ==
    [p \in DOMAIN TrainerDefaults |->
        IF \E n \in 1 .. Len(args) : TrainerParams[n] = p
          THEN args[CHOOSE n \in 1 .. Len(args) : TrainerParams[n] = p]
          ELSE TrainerDefaults[p]]

\* the arguments as they reach EarlyStoppingTrainer.__init__ and, by
\* keyword from there, Trainer.__init__: train_model builds Trainer and
\* EarlyStoppingTrainer; LanguageModelTrainer and APETrainer pass their own
\* parameters on by position
TrainerArgs ==
    CASE cls = "Trainer" ->
           BindPositional(<<trunc_size, 32, "text", norm_method,
                            grad_accum_count>>)
      [] cls = "EarlyStoppingTrainer" ->
           [BindPositional(<<trunc_size, 32, "text", norm_method,
                             grad_accum_count>>)
               EXCEPT !.start_val_after_batches = start_val_arg]
      [] cls = "LanguageModelTrainer" ->
           BindPositional(<<trunc_size, 32, "text", norm_method,
                            grad_accum_count, start_val_arg>>)
      [] cls = "APETrainer" ->
           BindPositional(<<trunc_size, 32, "text", norm_method,
                            grad_accum_count, FALSE, start_val_arg>>)

\* the assertions with the check of trunc_size left out
AccumConfigAccepted_NoTruncCheck(gac, trunc) == gac > 0

\* assert(grad_accum_count > 0);
\* if grad_accum_count > 1: assert(self.trunc_size == 0)
AccumConfigAccepted(gac, trunc) ==
    gac > 0 /\ (gac > 1 => trunc = 0)

\* Trainer.__init__, reached directly or through super().__init__ of
\* EarlyStoppingTrainer (and so of LanguageModelTrainer and APETrainer),
\* which then builds the EarlyStopping object
Trainer_init ==
    /\ pc = "new"
    /\ IF AccumConfigAccepted(TrainerArgs.grad_accum_count,
                              TrainerArgs.trunc_size)
         THEN /\ trainer' = TrainerArgs
              /\ model_mode' = "train"
              /\ progress_step' = 0
              /\ pc' = "constructed"
              /\ IF cls = "Trainer"
                   THEN UNCHANGED <<patienceVars, current_batches_processed>>
                   ELSE /\ current_batches_processed' = 0
                        /\ EarlyStopping_init(tolerance)
         ELSE /\ pc' = "AssertionError"
              /\ UNCHANGED <<trainer, model_mode, progress_step,
                             patienceVars, current_batches_processed>>
    /\ UNCHANGED <<cfgVars, epoch, total_stats, report_stats, idx,
                   true_batchs, accum, normalization, n_batches, seen,
                   gaVars, optVars, logVars, valid_stats_epoch, val_ret,
                   val_k, val_stats, val_q, val_log, checkpoints, statVars,
                   lossVars, iterVars>>

(***************************************************************************)
(* Trainer.train                                                           *)
(***************************************************************************)
\* train_model calls trainer.train(train_iter, epoch, report_func) on a
\* fresh iterator; train sets up its locals
train_begin ==
    /\ pc = "constructed"
    /\ cls = "Trainer"
    /\ n_batches' \in 0 .. MaxBatches
    /\ total_stats' = Statistics
    /\ report_stats' = Statistics
    /\ idx' = 0
    /\ true_batchs' = <<>>
    /\ accum' = 0
    /\ normalization' = 0
    /\ seen' = 0
    /\ applied' = <<>>
    /\ events' = <<>>
    /\ groups' = <<>>
    /\ loss_calls' = <<>>
    /\ reports' = <<>>
    /\ pc' = "for_batch"
    /\ UNCHANGED <<cfgVars, trainer, model_mode, progress_step, epoch, gaVars,
                   grad, patienceVars, esVars, statVars, lossVars, iterVars>>

\* what one batch adds to normalization
BatchNorm(batch) ==
    IF trainer.norm_method = "tokens" THEN batch.num_tokens
                                      ELSE batch.batch_size

\* for i, batch in enumerate(train_iter): the next batch is appended to
\* true_batchs and counted; a full group is handed to
\* _gradient_accumulation
train_for_batch ==
    /\ pc = "for_batch"
    /\ seen < n_batches
    /\ \E b \in BatchPool :
         LET batch == [i |-> seen, target_size |-> b.target_size,
                       batch_size |-> b.batch_size,
                       num_tokens |-> b.num_tokens,
                       src_words |-> b.src_words]
         IN /\ true_batchs' = Append(true_batchs, batch)
            /\ accum' = accum + 1
            /\ normalization' = normalization + BatchNorm(batch)
            /\ seen' = seen + 1
            /\ IF accum' = trainer.grad_accum_count
                 THEN /\ pc' = "ga_enter"
                      /\ ga_ret' = "group"
                      /\ groups' = Append(groups, true_batchs')
                 ELSE /\ pc' = "for_batch"
                      /\ UNCHANGED <<ga_ret, groups>>
    /\ UNCHANGED <<cfgVars, trainer, model_mode, progress_step, epoch,
                   total_stats, report_stats, idx, n_batches, ga_k, ga_j,
                   dec_state, grad, applied, events, patienceVars,
                   logVars, esVars, statVars, lossVars, iterVars>>

\* the end of the loop with the trailing group forgotten
train_exhausted_NoTail ==
    /\ pc = "for_batch"
    /\ seen = n_batches
    /\ pc' = "return"
    /\ UNCHANGED <<cfgVars, trainer, model_mode, progress_step, epoch,
                   total_stats, report_stats, idx, true_batchs, accum,
                   normalization, n_batches, seen, gaVars, optVars,
                   patienceVars,
                   logVars, esVars, statVars, lossVars, iterVars>>

\* the iterator is exhausted: a trailing partial group is handed to
\* _gradient_accumulation, an empty one is not
train_exhausted ==
    /\ pc = "for_batch"
    /\ seen = n_batches
    /\ IF Len(true_batchs) > 0
         THEN /\ pc' = "ga_enter"
              /\ ga_ret' = "tail"
              /\ groups' = Append(groups, true_batchs)
         ELSE /\ pc' = "return"
              /\ UNCHANGED <<ga_ret, groups>>
    /\ UNCHANGED <<cfgVars, trainer, model_mode, progress_step, epoch,
                   total_stats, report_stats, idx, true_batchs, accum,
                   normalization, n_batches, seen, ga_k, ga_j, dec_state,
                   grad, applied, events, patienceVars,
                   logVars, esVars, statVars, lossVars, iterVars>>

\* report_func resetting on the groups 0, report_every, ... instead
report_func_ZeroBased(batch, stats) ==
    IF batch % report_every = 0 THEN Statistics ELSE stats

\* report_func of train.py: every report_every-th group the interval
\* statistics are printed and replaced by a fresh Statistics
report_func(batch, stats) ==
    IF batch % report_every = (-1) % report_every THEN Statistics ELSE stats

\* the end of a full group with normalization not set back to 0
train_group_done_NoNormReset ==
    /\ pc = "group_done"
    /\ report_stats' = report_func(idx, report_stats)
    /\ reports' = Append(reports, [batch |-> idx, report_stats |-> report_stats,
                                   returned |-> report_stats'])
    /\ progress_step' = progress_step + 1
    /\ true_batchs' = <<>>
    /\ accum' = 0
    /\ idx' = idx + 1
    /\ pc' = "for_batch"
    /\ UNCHANGED <<cfgVars, trainer, model_mode, epoch, total_stats,
                   normalization, n_batches, seen, gaVars, optVars,
                   patienceVars, loss_calls, esVars, statVars, lossVars,
                   iterVars>>

\* after _gradient_accumulation of a full group: report, then reset
train_group_done ==
    /\ pc = "group_done"
    /\ report_stats' = report_func(idx, report_stats)
    /\ reports' = Append(reports, [batch |-> idx, report_stats |-> report_stats,
                                   returned |-> report_stats'])
    /\ progress_step' = progress_step + 1
    /\ true_batchs' = <<>>
    /\ accum' = 0
    /\ normalization' = 0
    /\ idx' = idx + 1
    /\ pc' = "for_batch"
    /\ UNCHANGED <<cfgVars, trainer, model_mode, epoch, total_stats,
                   n_batches, seen, gaVars, optVars, patienceVars,
                   loss_calls, esVars, statVars, lossVars, iterVars>>

\* after _gradient_accumulation of the trailing group: return total_stats
train_tail_done ==
    /\ pc = "tail_done"
    /\ true_batchs' = <<>>
    /\ pc' = "return"
    /\ UNCHANGED <<cfgVars, trainer, model_mode, progress_step, epoch,
                   total_stats, report_stats, idx, accum, normalization,
                   n_batches, seen, gaVars, optVars, patienceVars,
                   logVars, esVars, statVars, lossVars, iterVars>>

(***************************************************************************)
(* Trainer._gradient_accumulation                                          *)
(***************************************************************************)
\* the operations at the head of _gradient_accumulation, zero_grad left out
GroupHeadOps_NoZero == <<>>

\* if self.grad_accum_count > 1: self.model.zero_grad()
GroupHeadOps ==
    IF trainer.grad_accum_count > 1 THEN <<Ev("zero_grad", -1, -1)>> ELSE <<>>

\* the end of _gradient_accumulation without the optimizer step
GroupTailOps_NoStep == <<>>

\* if self.grad_accum_count > 1: self.optim.step()
GroupTailOps ==
    IF trainer.grad_accum_count > 1 THEN <<Ev("step", -1, -1)>> ELSE <<>>

\* the operations of a window with the optimizer step taken before the loss
WindowOps_StepBeforeLoss(i, j) ==
    (IF trainer.grad_accum_count = 1 THEN <<Ev("zero_grad", i, j)>> ELSE <<>>)
    \o <<Ev("forward", i, j)>>
    \o (IF trainer.grad_accum_count = 1 THEN <<Ev("step", i, j)>> ELSE <<>>)
    \o <<Ev("backward", i, j)>>

\* the operations of a window stepping inside the window whatever the
\* accumulation count
WindowOps_AlwaysStep(i, j) ==
    (IF trainer.grad_accum_count = 1 THEN <<Ev("zero_grad", i, j)>> ELSE <<>>)
    \o <<Ev("forward", i, j), Ev("backward", i, j), Ev("step", i, j)>>

\* the operations of one window: zero_grad if grad_accum_count == 1, the
\* forward pass, sharded_compute_loss with its backward pass, optim.step()
\* if grad_accum_count == 1
WindowOps(i, j) ==
    (IF trainer.grad_accum_count = 1 THEN <<Ev("zero_grad", i, j)>> ELSE <<>>)
    \o <<Ev("forward", i, j), Ev("backward", i, j)>>
    \o (IF trainer.grad_accum_count = 1 THEN <<Ev("step", i, j)>> ELSE <<>>)

\* trunc_size = self.trunc_size if self.trunc_size else target_size
EffectiveTrunc(target_size) ==
    IF trainer.trunc_size # 0 THEN trainer.trunc_size ELSE target_size

\* tgt = tgt_outer[j: j + trunc_size] with the slice cut at the index
\* j + trunc_size - 1
TargetSlice_Short(j, trunc, target_size) ==
    <<j, IF j + trunc - 1 < target_size THEN j + trunc - 1 ELSE target_size>>

\* tgt = tgt_outer[j: j + trunc_size]: the timesteps j .. hi - 1 of the
\* target, a slice ending at the end of the tensor at the latest
TargetSlice(j, trunc, target_size) ==
    <<j, IF j + trunc < target_size THEN j + trunc ELSE target_size>>

ga_enter ==
    /\ pc = "ga_enter"
    /\ LET st == Exec(GroupHeadOps, [grad |-> grad, applied |-> applied])
       IN /\ grad' = st.grad
          /\ applied' = st.applied
    /\ events' = events \o GroupHeadOps
    /\ ga_k' = 1
    /\ pc' = "ga_batch"
    /\ UNCHANGED <<cfgVars, trainer, model_mode, progress_step, epoch,
                   total_stats, report_stats, idx, true_batchs, accum,
                   normalization, n_batches, seen, ga_ret, ga_j, dec_state,
                   groups, patienceVars,
                   logVars, esVars, statVars, lossVars, iterVars>>

\* for batch in true_batchs: dec_state = None, the source words are counted,
\* and the words of the machine translation by an APETrainer
ga_batch ==
    /\ pc = "ga_batch"
    /\ IF ga_k <= Len(true_batchs)
         THEN /\ dec_state' = NoState
              /\ report_stats' =
                    IF cls = "APETrainer"
                      THEN [report_stats EXCEPT
                              !.n_src_words = @ + true_batchs[ga_k].src_words,
                              !.n_mt_words = @ + true_batchs[ga_k].mt_words]
                      ELSE [report_stats EXCEPT
                              !.n_src_words = @ + true_batchs[ga_k].src_words]
              /\ ga_j' = 0
              /\ pc' = "ga_window"
         ELSE /\ pc' = "ga_exit"
              /\ UNCHANGED <<dec_state, report_stats, ga_j>>
    /\ UNCHANGED <<cfgVars, trainer, model_mode, progress_step, epoch,
                   total_stats, idx, true_batchs, accum, normalization,
                   n_batches, seen, ga_ret, ga_k, optVars, patienceVars,
                   logVars, esVars, statVars, lossVars, iterVars>>

\* for j in range(0, target_size-1, trunc_size): one window
ga_window ==
    /\ pc = "ga_window"
    /\ LET batch == true_batchs[ga_k]
           trunc == EffectiveTrunc(batch.target_size)
       IN IF ga_j < batch.target_size - 1
            THEN LET ops == WindowOps(batch.i, ga_j)
                     st == Exec(ops, [grad |-> grad, applied |-> applied])
                     batch_stats == sharded_compute_loss(batch, ga_j, trunc)
                 IN /\ events' = events \o ops
                    /\ grad' = st.grad
                    /\ applied' = st.applied
                    /\ total_stats' =
                          Statistics_update(total_stats, batch_stats)
                    /\ report_stats' =
                          Statistics_update(report_stats, batch_stats)
                    /\ \E returned \in BOOLEAN :
                          dec_state' = detach(model_dec_state(batch.i, ga_j,
                                                              returned))
                    /\ loss_calls' =
                          Append(loss_calls,
                                 [batch |-> batch,
                                  tgt |-> TargetSlice(ga_j, trunc,
                                                      batch.target_size),
                                  cur_trunc |-> ga_j,
                                  trunc_size |-> trunc,
                                  normalization |-> normalization])
                    /\ ga_j' = ga_j + trunc
                    /\ UNCHANGED <<pc, ga_k>>
            ELSE /\ ga_k' = ga_k + 1
                 /\ pc' = "ga_batch"
                 /\ UNCHANGED <<events, grad, applied, total_stats,
                                report_stats, dec_state, ga_j, loss_calls>>
    /\ UNCHANGED <<cfgVars, trainer, model_mode, progress_step, epoch, idx,
                   true_batchs, accum, normalization, n_batches, seen, ga_ret,
                   groups, patienceVars, reports, esVars, statVars, lossVars,
                   iterVars>>

ga_exit ==
    /\ pc = "ga_exit"
    /\ LET st == Exec(GroupTailOps, [grad |-> grad, applied |-> applied])
       IN /\ grad' = st.grad
          /\ applied' = st.applied
    /\ events' = events \o GroupTailOps
    /\ pc' = IF ga_ret = "group" THEN "group_done"
             ELSE IF ga_ret = "tail" THEN "tail_done"
             ELSE ga_ret
    /\ UNCHANGED <<cfgVars, trainer, model_mode, progress_step, epoch,
                   total_stats, report_stats, idx, true_batchs, accum,
                   normalization, n_batches, seen, gaVars, groups,
                   patienceVars,
                   logVars, esVars, statVars, lossVars, iterVars>>

(***************************************************************************)
(* Trainer.validate                                                        *)
(***************************************************************************)
\* the statistics valid_loss.monolithic_compute_loss returns for the k-th
\* validation batch when the model's loss per target word is q; it
\* accumulates no gradient
monolithic_compute_loss(k, q) ==
    [loss |-> q * (k + 2), n_words |-> k + 2, n_correct |-> k + 1,
     n_src_words |-> 0, n_mt_words |-> 0]

\* Statistics.ppl of a validation, exp(min(loss / n_words, 100)), by the
\* integer part of its exponent: exp is increasing, the patience only
\* compares scores, and the exponents of the validations are integers
Statistics_ppl(self) ==
    LET e == ppl_exponent(self.loss, self.n_words) IN e.num \div e.den

\* self.model.eval(); stats = Statistics()
validate_enter ==
    /\ pc = "validate"
    /\ model_mode' = "eval"
    /\ val_stats' = Statistics
    /\ val_k' = 0
    /\ val_q' \in ValidLosses
    /\ events' = Append(events, Ev("eval", -1, -1))
    /\ pc' = "validate_batch"
    /\ UNCHANGED <<cfgVars, trainer, progress_step, epoch, total_stats,
                   report_stats, idx, true_batchs, accum, normalization,
                   n_batches, seen, gaVars, grad, applied, groups, logVars,
                   current_batches_processed, valid_stats_epoch, val_ret,
                   val_log, checkpoints, statVars, lossVars,
                   iterVars, patienceVars>>

\* for batch in valid_iter: the forward pass, the loss, stats.update
validate_batch ==
    /\ pc = "validate_batch"
    /\ val_k < n_valid
    /\ events' = events \o <<Ev("valid_forward", val_k, -1),
                              Ev("valid_loss", val_k, -1)>>
    /\ val_stats' =
          Statistics_update(val_stats, monolithic_compute_loss(val_k, val_q))
    /\ val_k' = val_k + 1
    /\ UNCHANGED <<cfgVars, trainVars, gaVars, grad, applied, groups,
                   logVars, current_batches_processed, valid_stats_epoch,
                   val_ret, val_q, val_log, checkpoints, statVars, lossVars,
                   iterVars,
                   patienceVars>>

\* the forward pass of the model raises on a validation batch, or the
\* forward pass returns and the loss raises: nothing in validate or in its
\* callers catches it
validate_batch_raises ==
    /\ pc = "validate_batch"
    /\ val_k < n_valid
    /\ \E raising \in {"forward", "loss"} :
          events' = IF raising = "loss"
                      THEN Append(events, Ev("valid_forward", val_k, -1))
                      ELSE events
    /\ pc' = "Exception"
    /\ UNCHANGED <<cfgVars, trainer, model_mode, progress_step, epoch,
                   total_stats, report_stats, idx, true_batchs, accum,
                   normalization, n_batches, seen, gaVars, grad, applied,
                   groups, logVars, esVars, statVars, lossVars, iterVars,
                   patienceVars>>

\* the end of validate with the model left in evaluation mode
validate_exit_NoTrain ==
    /\ pc = "validate_batch"
    /\ val_k = n_valid
    /\ pc' = IF val_ret = "train" THEN "val_done" ELSE "epoch_val_done"
    /\ UNCHANGED <<cfgVars, trainer, model_mode, progress_step, epoch,
                   total_stats, report_stats, idx, true_batchs, accum,
                   normalization, n_batches, seen, gaVars, optVars, logVars,
                   esVars, statVars, lossVars, iterVars, patienceVars>>

\* the iterator is exhausted: self.model.train(); return stats
validate_exit ==
    /\ pc = "validate_batch"
    /\ val_k = n_valid
    /\ model_mode' = "train"
    /\ events' = Append(events, Ev("train", -1, -1))
    /\ pc' = IF val_ret = "train" THEN "val_done" ELSE "epoch_val_done"
    /\ UNCHANGED <<cfgVars, trainer, progress_step, epoch, total_stats,
                   report_stats, idx, true_batchs, accum, normalization,
                   n_batches, seen, gaVars, grad, applied, groups, logVars,
                   esVars, statVars, lossVars, iterVars, patienceVars>>

(***************************************************************************)
(* train_model with the simple Trainer and no earlystop_tolerance          *)
(***************************************************************************)
\* train_stats = trainer.train(...) has returned: train_stats.ppl() and
\* train_stats.accuracy() are printed, which divide by n_words and raise
\* after an epoch without a target word; then valid_stats = validate()
train_model_returned ==
    /\ pc = "return"
    /\ cls = "Trainer"
    /\ IF total_stats.n_words = 0
         THEN /\ pc' = "ZeroDivisionError"
              /\ UNCHANGED val_ret
         ELSE /\ pc' = "validate"
              /\ val_ret' = "train_model"
    /\ UNCHANGED <<cfgVars, trainer, model_mode, progress_step, epoch,
                   total_stats, report_stats, idx, true_batchs, accum,
                   normalization, n_batches, seen, gaVars, optVars, logVars,
                   current_batches_processed, valid_stats_epoch, val_k,
                   val_stats, val_q, val_log, checkpoints, statVars,
                   lossVars, iterVars, patienceVars>>

\* trainer.validate has returned to validate() of train_model, which
\* prints valid_statistics.ppl() and valid_statistics.accuracy()
train_model_validated ==
    /\ pc = "epoch_val_done"
    /\ cls = "Trainer"
    /\ pc' = IF val_stats.n_words = 0 THEN "ZeroDivisionError"
                                      ELSE "epoch_step"
    /\ UNCHANGED <<cfgVars, trainer, model_mode, progress_step, epoch,
                   total_stats, report_stats, idx, true_batchs, accum,
                   normalization, n_batches, seen, gaVars, optVars, logVars,
                   esVars, statVars, lossVars, iterVars, patienceVars>>

\* trainer.epoch_step(valid_stats.ppl(), epoch); no patience is checked;
\* trainer.drop_checkpoint(model_opt, epoch, fields, valid_stats); the
\* next epoch of for epoch in range(opt.start_epoch, opt.epochs + 1)
train_model_next_epoch ==
    /\ pc = "epoch_step"
    /\ cls = "Trainer"
    /\ checkpoints' =
          Append(checkpoints, [by |-> "train_model", epoch |-> epoch,
                               validation |-> 1, valid_stats |-> val_stats])
    /\ IF epoch < MaxEpochs
         THEN /\ epoch' = epoch + 1
              /\ pc' = "constructed"
         ELSE /\ pc' = "done"
              /\ UNCHANGED epoch
    /\ UNCHANGED <<cfgVars, trainer, model_mode, progress_step, total_stats,
                   report_stats, idx, true_batchs, accum, normalization,
                   n_batches, seen, gaVars, optVars, logVars,
                   current_batches_processed, valid_stats_epoch, val_ret,
                   val_k, val_stats, val_q, val_log, statVars, lossVars,
                   iterVars, patienceVars>>

(***************************************************************************)
(* EarlyStoppingTrainer.train                                              *)
(***************************************************************************)
\* train_model calls trainer.train(train_iter, epoch, lazy_it_fn,
\* report_func) on a fresh iterator; train sets up its locals
es_train_begin ==
    /\ pc = "constructed"
    /\ cls = "EarlyStoppingTrainer"
    /\ n_batches' \in TrainSizes
    /\ total_stats' = Statistics
    /\ report_stats' = Statistics
    /\ idx' = 0
    /\ true_batchs' = <<>>
    /\ accum' = 0
    /\ normalization' = 0
    /\ valid_stats_epoch' = <<>>
    /\ seen' = 0
    /\ applied' = <<>>
    /\ events' = <<>>
    /\ groups' = <<>>
    /\ loss_calls' = <<>>
    /\ reports' = <<>>
    /\ val_log' = <<>>
    /\ checkpoints' = <<>>
    /\ pc' = "es_for_batch"
    /\ UNCHANGED <<cfgVars, trainer, model_mode, progress_step, epoch, gaVars,
                   grad, current_batches_processed, val_ret, val_k, val_stats,
                   val_q, statVars, lossVars, iterVars, patienceVars>>

\* for i, batch in enumerate(train_iter): the batch is counted, appended to
\* true_batchs; a full group is handed to _gradient_accumulation
es_for_batch ==
    /\ pc = "es_for_batch"
    /\ seen < n_batches
    /\ current_batches_processed' = current_batches_processed + 1
    /\ \E b \in EarlyStopBatches :
         LET batch == [i |-> seen, target_size |-> b.target_size,
                       batch_size |-> b.batch_size,
                       num_tokens |-> b.num_tokens,
                       src_words |-> b.src_words]
         IN /\ true_batchs' = Append(true_batchs, batch)
            /\ accum' = accum + 1
            /\ normalization' = normalization + BatchNorm(batch)
            /\ seen' = seen + 1
            /\ IF accum' = trainer.grad_accum_count
                 THEN /\ pc' = "ga_enter"
                      /\ ga_ret' = "es_group_done"
                      /\ groups' = Append(groups, true_batchs')
                 ELSE /\ pc' = "val_check"
                      /\ UNCHANGED <<ga_ret, groups>>
    /\ UNCHANGED <<cfgVars, trainer, model_mode, progress_step, epoch,
                   total_stats, report_stats, idx, n_batches, ga_k, ga_j,
                   dec_state, grad, applied, events, logVars,
                   valid_stats_epoch, val_ret, val_k, val_stats, val_q,
                   val_log, checkpoints, statVars, lossVars,
                   iterVars, patienceVars>>

\* after _gradient_accumulation of a full group: report, then reset
es_group_done ==
    /\ pc = "es_group_done"
    /\ report_stats' = report_func(idx, report_stats)
    /\ reports' = Append(reports, [batch |-> idx, report_stats |-> report_stats,
                                   returned |-> report_stats'])
    /\ progress_step' = progress_step + 1
    /\ true_batchs' = <<>>
    /\ accum' = 0
    /\ normalization' = 0
    /\ idx' = idx + 1
    /\ pc' = "val_check"
    /\ UNCHANGED <<cfgVars, trainer, model_mode, epoch, total_stats,
                   n_batches, seen, gaVars, optVars, loss_calls, esVars,
                   statVars, lossVars, iterVars, patienceVars>>

\* the test before a validation with the counter left as it is
es_val_check_NoReset ==
    /\ pc = "val_check"
    /\ IF current_batches_processed = trainer.start_val_after_batches
          /\ valid_iter # "None"
         THEN /\ val_ret' = "train"
              /\ pc' = "validate"
         ELSE /\ pc' = "es_for_batch"
              /\ UNCHANGED val_ret
    /\ UNCHANGED <<cfgVars, trainer, model_mode, progress_step, epoch,
                   total_stats, report_stats, idx, true_batchs, accum,
                   normalization, n_batches, seen, gaVars, optVars, logVars,
                   current_batches_processed, valid_stats_epoch, val_k,
                   val_stats, val_q, val_log, checkpoints, statVars,
                   lossVars, iterVars, patienceVars>>

\* if self.current_batches_processed == self.start_val_after_batches and
\* valid_iter is not None: the counter is reset and validate is called
es_val_check ==
    /\ pc = "val_check"
    /\ IF current_batches_processed = trainer.start_val_after_batches
          /\ valid_iter # "None"
         THEN /\ current_batches_processed' = 0
              /\ val_ret' = "train"
              /\ pc' = "validate"
         ELSE /\ pc' = "es_for_batch"
              /\ UNCHANGED <<current_batches_processed, val_ret>>
    /\ UNCHANGED <<cfgVars, trainer, model_mode, progress_step, epoch,
                   total_stats, report_stats, idx, true_batchs, accum,
                   normalization, n_batches, seen, gaVars, optVars, logVars,
                   valid_stats_epoch, val_k, val_stats, val_q, val_log,
                   checkpoints, statVars, lossVars, iterVars, patienceVars>>

\* validate has returned: the statistics are kept, the patience is called;
\* break if it has stopped, drop_checkpoint if it is improving
es_val_done ==
    /\ pc = "val_done"
    /\ valid_stats_epoch' = Append(valid_stats_epoch, val_stats)
    /\ EarlyStopping_call(Statistics_ppl(val_stats))
    /\ IF has_stopped'
         THEN /\ pc' = "es_break"
              /\ UNCHANGED checkpoints
         ELSE /\ pc' = "es_for_batch"
              /\ checkpoints' =
                    IF is_improving'
                      THEN Append(checkpoints,
                                  [by |-> "train", epoch |-> epoch,
                                   validation |-> Len(valid_stats_epoch'),
                                   valid_stats |-> val_stats])
                      ELSE checkpoints
    /\ val_log' = Append(val_log, [seen |-> seen,
                                   pending |-> Len(true_batchs),
                                   ops |-> Len(events),
                                   valid_stats |-> val_stats,
                                   status |-> status'])
    /\ UNCHANGED <<cfgVars, trainer, model_mode, progress_step, epoch,
                   total_stats, report_stats, idx, true_batchs, accum,
                   normalization, n_batches, seen, gaVars, optVars, logVars,
                   current_batches_processed, val_ret, val_k, val_stats,
                   val_q, statVars, lossVars, iterVars>>

\* after the loop, left by exhaustion or by break: a pending group is
\* handed to _gradient_accumulation
es_after_loop ==
    /\ \/ pc = "es_for_batch" /\ seen = n_batches
       \/ pc = "es_break"
    /\ IF Len(true_batchs) > 0
         THEN /\ pc' = "ga_enter"
              /\ ga_ret' = "es_tail_done"
              /\ groups' = Append(groups, true_batchs)
         ELSE /\ pc' = "return"
              /\ UNCHANGED <<ga_ret, groups>>
    /\ UNCHANGED <<cfgVars, trainer, model_mode, progress_step, epoch,
                   total_stats, report_stats, idx, true_batchs, accum,
                   normalization, n_batches, seen, ga_k, ga_j, dec_state,
                   grad, applied, events, logVars, esVars, statVars, lossVars,
                   iterVars,
                   patienceVars>>

\* after _gradient_accumulation of the pending group: return total_stats,
\* valid_stats_epoch and the patience
es_tail_done ==
    /\ pc = "es_tail_done"
    /\ true_batchs' = <<>>
    /\ pc' = "return"
    /\ UNCHANGED <<cfgVars, trainer, model_mode, progress_step, epoch,
                   total_stats, report_stats, idx, accum, normalization,
                   n_batches, seen, gaVars, optVars, logVars, esVars,
                   statVars, lossVars, iterVars, patienceVars>>

\* train_model validating at the end of every epoch that has not stopped
es_epoch_returned_AlwaysValidates ==
    /\ pc = "return"
    /\ cls = "EarlyStoppingTrainer"
    /\ IF has_stopped
         THEN /\ pc' = "done"
              /\ UNCHANGED val_ret
         ELSE /\ pc' = "validate"
              /\ val_ret' = "train_model"
    /\ UNCHANGED <<cfgVars, trainer, model_mode, progress_step, epoch,
                   total_stats, report_stats, idx, true_batchs, accum,
                   normalization, n_batches, seen, gaVars, optVars, logVars,
                   current_batches_processed, valid_stats_epoch, val_k,
                   val_stats, val_q, val_log, checkpoints, statVars,
                   lossVars, iterVars, patienceVars>>

(***************************************************************************)
(* train_model after trainer.train of an EarlyStoppingTrainer              *)
(***************************************************************************)
\* if patience.has_stopped(): break; if len(valid_stats) == 0: validate()
es_epoch_returned ==
    /\ pc = "return"
    /\ cls = "EarlyStoppingTrainer"
    /\ IF has_stopped
         THEN /\ pc' = "done"
              /\ UNCHANGED val_ret
         ELSE IF Len(valid_stats_epoch) = 0
         THEN /\ pc' = "validate"
              /\ val_ret' = "train_model"
         ELSE /\ pc' = "epoch_step"
              /\ UNCHANGED val_ret
    /\ UNCHANGED <<cfgVars, trainer, model_mode, progress_step, epoch,
                   total_stats, report_stats, idx, true_batchs, accum,
                   normalization, n_batches, seen, gaVars, optVars, logVars,
                   current_batches_processed, valid_stats_epoch, val_k,
                   val_stats, val_q, val_log, checkpoints, statVars,
                   lossVars, iterVars, patienceVars>>

\* valid_stats = [valid_stats_epoch]; patience(valid_stats_epoch, ...)
es_epoch_val_done ==
    /\ pc = "epoch_val_done"
    /\ cls = "EarlyStoppingTrainer"
    /\ valid_stats_epoch' = <<val_stats>>
    /\ EarlyStopping_call(Statistics_ppl(val_stats))
    /\ pc' = "epoch_step"
    /\ UNCHANGED <<cfgVars, trainer, model_mode, progress_step, epoch,
                   total_stats, report_stats, idx, true_batchs, accum,
                   normalization, n_batches, seen, gaVars, optVars, logVars,
                   current_batches_processed, val_ret, val_k, val_stats,
                   val_q, val_log, checkpoints, statVars, lossVars, iterVars>>

\* the checkpoints train_model drops for the statistics vs[n ..]
RECURSIVE EpochCheckpoints(_, _)
EpochCheckpoints(vs, n) ==
    IF n > Len(vs) THEN <<>>
    ELSE <<[by |-> "train_model", epoch |-> epoch, validation |-> n,
            valid_stats |-> vs[n]]>> \o EpochCheckpoints(vs, n + 1)

\* trainer.epoch_step; if patience.has_stopped(): break; drop_checkpoint
\* for every validation of the epoch; the next epoch, if there is one
es_epoch_step ==
    /\ pc = "epoch_step"
    /\ cls = "EarlyStoppingTrainer"
    /\ IF has_stopped
         THEN /\ pc' = "done"
              /\ UNCHANGED <<checkpoints, epoch>>
         ELSE /\ checkpoints' =
                    checkpoints \o EpochCheckpoints(valid_stats_epoch, 1)
              /\ IF epoch < MaxEpochs
                   THEN /\ epoch' = epoch + 1
                        /\ pc' = "constructed"
                   ELSE /\ pc' = "done"
                        /\ UNCHANGED epoch
    /\ UNCHANGED <<cfgVars, trainer, model_mode, progress_step, total_stats,
                   report_stats, idx, true_batchs, accum, normalization,
                   n_batches, seen, gaVars, optVars, logVars,
                   current_batches_processed, valid_stats_epoch, val_ret,
                   val_k, val_stats, val_q, val_log, statVars, lossVars,
                   iterVars, patienceVars>>

(***************************************************************************)
(* Spec: a trainer is constructed from any configuration; with a Trainer   *)
(* train_model then runs its epochs: Trainer.train, the validation of the  *)
(* end of the epoch, the checkpoint.                                       *)
(***************************************************************************)
Init ==
    /\ cls \in TrainerClasses
    /\ grad_accum_count \in AccumCounts
    /\ trunc_size \in TruncSizes
    /\ norm_method \in NormMethods
    /\ report_every \in ReportEvery
    /\ start_val_arg \in (IF cls = "Trainer" THEN {0} ELSE StartVals)
    /\ valid_iter = "None"
    /\ n_valid \in (IF cls = "Trainer" THEN ValidSizes ELSE {0})
    /\ trainer = "None"
    /\ pc = "new"
    /\ model_mode = "unset"
    /\ progress_step = 0
    /\ epoch = 1
    /\ total_stats = Statistics
    /\ report_stats = Statistics
    /\ idx = 0
    /\ true_batchs = <<>>
    /\ accum = 0
    /\ normalization = 0
    /\ n_batches = 0
    /\ seen = 0
    /\ ga_ret = "none"
    /\ ga_k = 0
    /\ ga_j = 0
    /\ dec_state = NoState
    /\ grad = <<>>
    /\ applied = <<>>
    /\ events = <<>>
    /\ groups = <<>>
    /\ loss_calls = <<>>
    /\ reports = <<>>
    /\ current_batches_processed = 0
    /\ valid_stats_epoch = <<>>
    /\ val_ret = "none"
    /\ val_k = 0
    /\ val_stats = Statistics
    /\ val_q = 0
    /\ val_log = <<>>
    /\ checkpoints = <<>>
    /\ stat_class = "None"
    /\ stat_self = Statistics
    /\ stat_arg = Statistics
    /\ stat_hist = <<>>
    /\ stat_init = Statistics
    /\ stat_ret = NoCall
    /\ LossIdle
    /\ IterIdle
    /\ tolerance \in (IF cls = "Trainer" THEN {0} ELSE Tolerances)
    /\ current_tolerance = 0
    /\ best_score = Inf
    /\ status = "unset"
    /\ best_saves = 0
    /\ obs = <<>>
    /\ hist = <<>>

Next ==
    \/ Trainer_init
    \/ train_begin
    \/ train_for_batch
    \/ train_exhausted
    \/ train_group_done
    \/ train_tail_done
    \/ train_model_returned
    \/ train_model_validated
    \/ train_model_next_epoch
    \/ ga_enter
    \/ ga_batch
    \/ ga_window
    \/ ga_exit
    \/ validate_enter
    \/ validate_batch
    \/ validate_batch_raises
    \/ validate_exit

Spec == Init /\ [][Next]_vars

(***************************************************************************)
(* SpecEarlyStop: train_model with an EarlyStoppingTrainer, validating      *)
(* every start_val_after_batches batches, or with the simple Trainer;      *)
(* sentences are counted, every second group is reported, targets are      *)
(* truncated to windows of two or three steps or not at all.               *)
(***************************************************************************)
InitEarlyStop ==
    /\ cls \in {"Trainer", "EarlyStoppingTrainer"}
    /\ grad_accum_count \in 1 .. MaxAccum
    /\ trunc_size \in TruncSizes
    /\ norm_method = "sents"
    /\ report_every = 2
    /\ start_val_arg \in (IF cls = "Trainer" THEN {0} ELSE StartVals)
    /\ valid_iter = (IF cls = "Trainer" THEN "None" ELSE "build_lazy_valid")
    /\ n_valid \in ValidSizes
    /\ trainer = "None"
    /\ pc = "new"
    /\ model_mode = "unset"
    /\ progress_step = 0
    /\ epoch = 1
    /\ total_stats = Statistics
    /\ report_stats = Statistics
    /\ idx = 0
    /\ true_batchs = <<>>
    /\ accum = 0
    /\ normalization = 0
    /\ n_batches = 0
    /\ seen = 0
    /\ ga_ret = "none"
    /\ ga_k = 0
    /\ ga_j = 0
    /\ dec_state = NoState
    /\ grad = <<>>
    /\ applied = <<>>
    /\ events = <<>>
    /\ groups = <<>>
    /\ loss_calls = <<>>
    /\ reports = <<>>
    /\ current_batches_processed = 0
    /\ valid_stats_epoch = <<>>
    /\ val_ret = "none"
    /\ val_k = 0
    /\ val_stats = Statistics
    /\ val_q = 0
    /\ val_log = <<>>
    /\ checkpoints = <<>>
    /\ stat_class = "None"
    /\ stat_self = Statistics
    /\ stat_arg = Statistics
    /\ stat_hist = <<>>
    /\ stat_init = Statistics
    /\ stat_ret = NoCall
    /\ LossIdle
    /\ IterIdle
    /\ tolerance \in (IF cls = "Trainer" THEN {0} ELSE Tolerances)
    /\ current_tolerance = 0
    /\ best_score = Inf
    /\ status = "unset"
    /\ best_saves = 0
    /\ obs = <<>>
    /\ hist = <<>>

NextEarlyStop ==
    \/ Trainer_init
    \/ train_begin
    \/ train_for_batch
    \/ train_exhausted
    \/ train_group_done
    \/ train_tail_done
    \/ train_model_returned
    \/ train_model_validated
    \/ train_model_next_epoch
    \/ es_train_begin
    \/ es_for_batch
    \/ es_group_done
    \/ es_val_check
    \/ es_val_done
    \/ es_after_loop
    \/ es_tail_done
    \/ es_epoch_returned
    \/ es_epoch_val_done
    \/ es_epoch_step
    \/ ga_enter
    \/ ga_batch
    \/ ga_window
    \/ ga_exit
    \/ validate_enter
    \/ validate_batch
    \/ validate_batch_raises
    \/ validate_exit

SpecEarlyStop == InitEarlyStop /\ [][NextEarlyStop]_vars

(***************************************************************************)
(* SpecAccum: one call of _gradient_accumulation, of a Trainer or of an    *)
(* APETrainer, on any group of batches the constructor's checks allow.     *)
(***************************************************************************)
\* the batches of APE data: mt_words is the sum of the lengths of the
\* machine translations
AccumBatches ==
    {[target_size |-> b.target_size, batch_size |-> b.batch_size,
      num_tokens |-> b.num_tokens, src_words |-> b.src_words,
      mt_words |-> b.src_words + 1] : b \in BatchPool}

\* the groups of at most k batches, and of at most two, numbered from 0
AccumGroups(k) ==
    UNION {{[n \in 1 .. len |->
               [i |-> n - 1, target_size |-> f[n].target_size,
                batch_size |-> f[n].batch_size,
                num_tokens |-> f[n].num_tokens,
                src_words |-> f[n].src_words,
                mt_words |-> f[n].mt_words]] :
              f \in [1 .. len -> AccumBatches]} :
             len \in 1 .. (IF k < 2 THEN k ELSE 2)}

\* the normalization Trainer.train has summed for the batches bs[n ..]
RECURSIVE AccumNormalization(_, _)
AccumNormalization(bs, n) ==
    IF n > Len(bs) THEN 0
    ELSE BatchNorm(bs[n]) + AccumNormalization(bs, n + 1)

InitAccum ==
    /\ cls \in {"Trainer", "APETrainer"}
    /\ grad_accum_count \in 1 .. MaxAccum
    /\ trunc_size \in TruncSizes
    /\ AccumConfigAccepted(grad_accum_count, trunc_size)
    /\ norm_method \in NormMethods
    /\ report_every = 1
    /\ start_val_arg = (IF cls = "Trainer" THEN 0 ELSE 1)
    /\ valid_iter = "None"
    /\ n_valid = 0
    /\ trainer = TrainerArgs
    /\ pc = "ga_enter"
    /\ model_mode = "train"
    /\ progress_step = 0
    /\ epoch = 1
    /\ total_stats = Statistics
    /\ report_stats = Statistics
    /\ idx = 0
    /\ true_batchs \in AccumGroups(grad_accum_count)
    /\ accum = Len(true_batchs)
    /\ normalization = AccumNormalization(true_batchs, 1)
    /\ n_batches = Len(true_batchs)
    /\ seen = Len(true_batchs)
    /\ ga_ret = "done"
    /\ ga_k = 0
    /\ ga_j = 0
    /\ dec_state = NoState
    /\ grad = <<>>
    /\ applied = <<>>
    /\ events = <<>>
    /\ groups = <<true_batchs>>
    /\ loss_calls = <<>>
    /\ reports = <<>>
    /\ current_batches_processed = 0
    /\ valid_stats_epoch = <<>>
    /\ val_ret = "none"
    /\ val_k = 0
    /\ val_stats = Statistics
    /\ val_q = 0
    /\ val_log = <<>>
    /\ checkpoints = <<>>
    /\ stat_class = "None"
    /\ stat_self = Statistics
    /\ stat_arg = Statistics
    /\ stat_hist = <<>>
    /\ stat_init = Statistics
    /\ stat_ret = NoCall
    /\ LossIdle
    /\ IterIdle
    /\ tolerance = (IF cls = "Trainer" THEN 0 ELSE 1)
    /\ current_tolerance = tolerance
    /\ best_score = Inf
    /\ status = (IF cls = "Trainer" THEN "unset" ELSE IMPROVING)
    /\ best_saves = 0
    /\ obs = <<>>
    /\ hist = <<>>

NextAccum ==
    \/ ga_enter
    \/ ga_batch
    \/ ga_window
    \/ ga_exit

SpecAccum == InitAccum /\ [][NextAccum]_vars

(***************************************************************************)
(* SpecPatience: one EarlyStopping object, observed with any scores.       *)
(***************************************************************************)
InitPatience ==
    /\ cls = "Trainer"
    /\ grad_accum_count = 1
    /\ trunc_size = 0
    /\ norm_method = "sents"
    /\ report_every = 1
    /\ start_val_arg = 0
    /\ valid_iter = "None"
    /\ n_valid = 0
    /\ trainer = "None"
    /\ pc = "patience"
    /\ model_mode = "train"
    /\ progress_step = 0
    /\ epoch = 1
    /\ total_stats = Statistics
    /\ report_stats = Statistics
    /\ idx = 0
    /\ true_batchs = <<>>
    /\ accum = 0
    /\ normalization = 0
    /\ n_batches = 0
    /\ seen = 0
    /\ ga_ret = "none"
    /\ ga_k = 0
    /\ ga_j = 0
    /\ dec_state = NoState
    /\ grad = <<>>
    /\ applied = <<>>
    /\ events = <<>>
    /\ groups = <<>>
    /\ loss_calls = <<>>
    /\ reports = <<>>
    /\ current_batches_processed = 0
    /\ valid_stats_epoch = <<>>
    /\ val_ret = "none"
    /\ val_k = 0
    /\ val_stats = Statistics
    /\ val_q = 0
    /\ val_log = <<>>
    /\ checkpoints = <<>>
    /\ stat_class = "None"
    /\ stat_self = Statistics
    /\ stat_arg = Statistics
    /\ stat_hist = <<>>
    /\ stat_init = Statistics
    /\ stat_ret = NoCall
    /\ LossIdle
    /\ IterIdle
    /\ tolerance \in Tolerances
    /\ current_tolerance = tolerance
    /\ best_score = Inf
    /\ status = IMPROVING
    /\ best_saves = 0
    /\ obs = <<>>
    /\ hist = <<>>

\* patience(valid_stats, epoch, model_opt, fields)
Observe(score) ==
    /\ pc = "patience"
    /\ Len(obs) < MaxObs
    /\ EarlyStopping_call(score)
    /\ UNCHANGED <<cfgVars, trainVars, gaVars, optVars, logVars, esVars,
                   statVars, lossVars, iterVars>>

NextPatience == \E score \in Scores : Observe(score)

SpecPatience == InitPatience /\ [][NextPatience]_vars

(***************************************************************************)
(* SpecStats: one Statistics object of either class, updated with other    *)
(* Statistics objects.                                                     *)
(***************************************************************************)
\* Statistics objects as the trainer and the loss build them: fresh, the
\* statistics of a window, interval statistics with source words counted,
\* and one whose loss is so large that a sum with it is rounded
StatsPool(class) ==
    IF class = "onmt.Trainer.Statistics"
      THEN { Statistics,
             [loss |-> 9, n_words |-> 3, n_correct |-> 3, n_src_words |-> 4,
              n_mt_words |-> 0],
             [loss |-> 3, n_words |-> 1, n_correct |-> 0, n_src_words |-> 7,
              n_mt_words |-> 5],
             [loss |-> 297, n_words |-> 2, n_correct |-> 1,
              n_src_words |-> 0, n_mt_words |-> 0],
             [loss |-> FloatExact, n_words |-> 4, n_correct |-> 2,
              n_src_words |-> 0, n_mt_words |-> 0] }
      ELSE { Loss_Statistics,
             [loss |-> 9, reg |-> 2, n_words |-> 3, n_correct |-> 3,
              n_src_words |-> 4],
             [loss |-> 3, reg |-> 1, n_words |-> 1, n_correct |-> 0,
              n_src_words |-> 7],
             [loss |-> 297, reg |-> 0, n_words |-> 2, n_correct |-> 1,
              n_src_words |-> 0],
             [loss |-> FloatExact, reg |-> 1, n_words |-> 4, n_correct |-> 2,
              n_src_words |-> 0] }

InitStats ==
    /\ cls = "Trainer"
    /\ grad_accum_count = 1
    /\ trunc_size = 0
    /\ norm_method = "sents"
    /\ report_every = 1
    /\ start_val_arg = 0
    /\ valid_iter = "None"
    /\ n_valid = 0
    /\ trainer = "None"
    /\ pc = "stats"
    /\ model_mode = "unset"
    /\ progress_step = 0
    /\ epoch = 1
    /\ total_stats = Statistics
    /\ report_stats = Statistics
    /\ idx = 0
    /\ true_batchs = <<>>
    /\ accum = 0
    /\ normalization = 0
    /\ n_batches = 0
    /\ seen = 0
    /\ ga_ret = "none"
    /\ ga_k = 0
    /\ ga_j = 0
    /\ dec_state = NoState
    /\ grad = <<>>
    /\ applied = <<>>
    /\ events = <<>>
    /\ groups = <<>>
    /\ loss_calls = <<>>
    /\ reports = <<>>
    /\ current_batches_processed = 0
    /\ valid_stats_epoch = <<>>
    /\ val_ret = "none"
    /\ val_k = 0
    /\ val_stats = Statistics
    /\ val_q = 0
    /\ val_log = <<>>
    /\ checkpoints = <<>>
    /\ stat_class \in StatClasses
    /\ stat_self \in StatsPool(stat_class)
    /\ stat_arg \in StatsPool(stat_class)
    /\ stat_hist = <<>>
    /\ stat_init = stat_self
    /\ stat_ret = NoCall
    /\ LossIdle
    /\ IterIdle
    /\ tolerance = 0
    /\ current_tolerance = 0
    /\ best_score = Inf
    /\ status = "unset"
    /\ best_saves = 0
    /\ obs = <<>>
    /\ hist = <<>>

\* self.update(stat), then another Statistics is at hand
update ==
    /\ pc = "stats"
    /\ Len(stat_hist) < MaxUpdates
    /\ stat_self' = IF stat_class = "onmt.Trainer.Statistics"
                      THEN Statistics_update(stat_self, stat_arg)
                      ELSE Loss_Statistics_update(stat_self, stat_arg)
    /\ stat_hist' = Append(stat_hist, stat_arg)
    /\ stat_arg' \in StatsPool(stat_class)
    /\ stat_ret' = NoCall
    /\ UNCHANGED <<stat_class, stat_init, cfgVars, trainVars, gaVars,
                   optVars, logVars, esVars, lossVars, iterVars, patienceVars>>

\* self.accuracy() is called; an exception leaves the object as it is
accuracy ==
    /\ pc = "stats"
    /\ stat_ret' = [Statistics_accuracy(stat_self) EXCEPT !.op = "accuracy"]
    /\ UNCHANGED <<stat_class, stat_self, stat_arg, stat_hist, stat_init,
                   cfgVars, trainVars, gaVars, optVars, logVars, esVars,
                   lossVars, iterVars, patienceVars>>

\* self.ppl() is called
ppl ==
    /\ pc = "stats"
    /\ stat_ret' = [Statistics_ppl_call(stat_self) EXCEPT !.op = "ppl"]
    /\ UNCHANGED <<stat_class, stat_self, stat_arg, stat_hist, stat_init,
                   cfgVars, trainVars, gaVars, optVars, logVars, esVars,
                   lossVars, iterVars, patienceVars>>

NextStats == update \/ accuracy \/ ppl

SpecStats == InitStats /\ [][NextStats]_vars

(***************************************************************************)
(* Claims about Statistics, checked under SpecStats.                       *)
(***************************************************************************)
\* previous value plus value of the argument, as update computes it for the
\* field f: a float sum for loss and reg, an integer sum for the counts
FieldSum(f, a, b) == IF f \in {"loss", "reg"} THEN float_add(a, b) ELSE a + b

\* C20 as stated: update adds to each of loss, reg, n_words, n_correct and
\* n_src_words of the receiver the value the argument has for it.
C20_UpdateSumsEveryCounter ==
    [][stat_hist' # stat_hist =>
         \A f \in DOMAIN stat_self \cap
                  {"loss", "reg", "n_words", "n_correct", "n_src_words"} :
            stat_self'[f] = FieldSum(f, stat_self[f], stat_arg[f])]_vars

\* C20 as amended: update adds to each of loss, n_words and n_correct of the
\* receiver (and to reg, for the Statistics of onmt/Loss.py, the only one
\* that has it) the value the argument has for it; n_src_words of the
\* receiver (and n_mt_words) is left as it was, whatever the argument holds.
C20_UpdateSumsLossAndWords ==
    [][stat_hist' # stat_hist =>
         /\ DOMAIN stat_self' = DOMAIN stat_self
         /\ \A f \in DOMAIN stat_self :
               stat_self'[f] =
                  IF f \in {"loss", "reg", "n_words", "n_correct"}
                    THEN FieldSum(f, stat_self[f], stat_arg[f])
                    ELSE stat_self[f]]_vars

\* a Statistics of onmt/Trainer.py was updated with one that counts source
\* words and correct predictions: the latter were added, the former not
C20_Witness ==
    /\ stat_class = "onmt.Trainer.Statistics"
    /\ Len(stat_hist) = 1
    /\ stat_hist[1].n_src_words = 4
    /\ stat_hist[1].n_correct = 3
    /\ stat_self.n_correct = 4
    /\ stat_self.n_src_words = 0

(***************************************************************************)
(* Claims about EarlyStopping, checked under SpecPatience.  A step that    *)
(* appends a score s to obs is one call of __call__ with that score.       *)
(***************************************************************************)
IsPrefix(s, t) ==
    /\ Len(s) <= Len(t)
    /\ \A n \in 1 .. Len(s) : s[n] = t[n]

\* C1: a score strictly lower than best_score, observed in any state of the
\* machine (STOPPED included), becomes the new best_score, resets the
\* remaining tolerance to the configured one, sets the status to IMPROVING
\* and saves the best model exactly once.
C1_LowerScoreImproves ==
    [][\A s \in Scores :
         (obs' = Append(obs, s) /\ s < best_score) =>
            /\ best_score' = s
            /\ current_tolerance' = tolerance
            /\ status' = IMPROVING
            /\ best_saves' = best_saves + 1]_vars

\* a new best was observed while the machine was STOPPED
C1_Witness ==
    /\ Len(hist) >= 2
    /\ hist[Len(hist) - 1].status = STOPPED
    /\ Last(hist).status = IMPROVING
    /\ best_score = Last(obs)
    /\ best_saves >= 2

\* C2: a score strictly greater than best_score takes exactly 1 off the
\* remaining tolerance, leaves best_score alone, saves nothing, and gives
\* DECREASING if the new tolerance is above 0 and STOPPED otherwise.
C2_HigherScoreDecrements ==
    [][\A s \in Scores :
         (obs' = Append(obs, s) /\ s > best_score) =>
            /\ current_tolerance' = current_tolerance - 1
            /\ best_score' = best_score
            /\ best_saves' = best_saves
            /\ status' = IF current_tolerance' > 0 THEN DECREASING
                                                   ELSE STOPPED]_vars

\* two worse scores in a row: DECREASING with tolerance left, then STOPPED
C2_Witness ==
    /\ Len(hist) >= 3
    /\ obs[Len(obs) - 1] > best_score
    /\ Last(obs) > best_score
    /\ hist[Len(hist) - 1] = [status |-> DECREASING, tolerance |-> 1]
    /\ Last(hist) = [status |-> STOPPED, tolerance |-> 0]

\* C3 as stated: a score equal to best_score changes neither the remaining
\* tolerance, nor best_score, nor the status.
C3_EqualScoreChangesNothing ==
    [][\A s \in Scores :
         (obs' = Append(obs, s) /\ s = best_score) =>
            UNCHANGED <<current_tolerance, best_score, status>>]_vars

\* C3 as amended: a score equal to best_score leaves the remaining tolerance
\* and best_score alone and saves nothing; the status becomes DECREASING if
\* the remaining tolerance is above 0 and STOPPED otherwise, so DECREASING
\* and STOPPED are kept while IMPROVING turns into DECREASING.
C3_EqualScoreKeepsTolerance ==
    [][\A s \in Scores :
         (obs' = Append(obs, s) /\ s = best_score) =>
            /\ UNCHANGED <<current_tolerance, best_score, best_saves>>
            /\ status' = IF current_tolerance > 0 THEN DECREASING
                                                  ELSE STOPPED
            /\ status \in {DECREASING, STOPPED} => status' = status
            /\ status = IMPROVING => status' = DECREASING]_vars

\* the best score was observed a second time right after it was set
C3_Witness ==
    /\ Len(obs) >= 2
    /\ Last(obs) = obs[Len(obs) - 1]
    /\ Last(obs) = best_score
    /\ hist[Len(hist) - 1].status = IMPROVING
    /\ Last(hist).status = DECREASING

\* the scores 5.0, 4.0, 4.5, 4.5, 6.0
C4_Scores == <<10, 8, 9, 9, 12>>

C4_StatedHist ==
    << [status |-> IMPROVING, tolerance |-> 1],
       [status |-> IMPROVING, tolerance |-> 1],
       [status |-> DECREASING, tolerance |-> 0],
       [status |-> DECREASING, tolerance |-> 0],
       [status |-> STOPPED, tolerance |-> 0] >>

C4_CodeHist ==
    << [status |-> IMPROVING, tolerance |-> 1],
       [status |-> IMPROVING, tolerance |-> 1],
       [status |-> STOPPED, tolerance |-> 0],
       [status |-> STOPPED, tolerance |-> -1],
       [status |-> STOPPED, tolerance |-> -2] >>

\* C4 as stated: with tolerance 1 the scores 5.0, 4.0, 4.5, 4.5, 6.0 give
\* IMPROVING, IMPROVING, DECREASING, DECREASING, STOPPED, and the machine is
\* not STOPPED before the fifth observation.
C4_StatedSequence ==
    (tolerance = 1 /\ IsPrefix(obs, C4_Scores)) =>
        /\ \A n \in 1 .. Len(hist) : hist[n].status = C4_StatedHist[n].status
        /\ Len(obs) < 5 => status # STOPPED

\* C4 as amended: with tolerance 1 the scores 5.0, 4.0, 4.5, 4.5, 6.0 give
\* IMPROVING, IMPROVING, STOPPED (tolerance 0), STOPPED (tolerance -1: the
\* second 4.5 is again above the best score 4.0), STOPPED (tolerance -2): the
\* machine is STOPPED from the third observation on.
C4_CodeSequence ==
    (tolerance = 1 /\ IsPrefix(obs, C4_Scores)) =>
        /\ IsPrefix(hist, C4_CodeHist)
        /\ Len(obs) >= 3 <=> status = STOPPED

C4_Witness ==
    /\ tolerance = 1
    /\ obs = C4_Scores
    /\ Len(hist) = 5

\* C5 as stated: once the status is STOPPED no further observation changes
\* it or raises the remaining tolerance.
C5_StoppedIsTerminal ==
    [][status = STOPPED =>
         /\ status' = STOPPED
         /\ current_tolerance' <= current_tolerance]_vars

\* C5 as amended: once the status is STOPPED, an observation with a score
\* equal to or higher than best_score leaves it STOPPED and does not raise
\* the remaining tolerance; a strictly lower score alone re-enters IMPROVING
\* and resets the tolerance.
C5_StoppedUnlessNewBest ==
    [][\A s \in Scores :
         (status = STOPPED /\ obs' = Append(obs, s)) =>
            IF s >= best_score
              THEN /\ status' = STOPPED
                   /\ current_tolerance' <= current_tolerance
              ELSE /\ status' = IMPROVING
                   /\ current_tolerance' = tolerance]_vars

\* STOPPED survived an equal and then a higher score
C5_Witness ==
    /\ Len(hist) >= 3
    /\ hist[Len(hist) - 2].status = STOPPED
    /\ obs[Len(obs) - 1] = best_score
    /\ Last(obs) > best_score
    /\ hist[Len(hist) - 1].status = STOPPED
    /\ Last(hist).status = STOPPED

(***************************************************************************)
(* Claims about Trainer.__init__, Trainer.train and                        *)
(* Trainer._gradient_accumulation, checked under Spec.                     *)
(***************************************************************************)
\* train_model is past the call of Trainer.train of the simple trainer: it
\* validates, steps the epoch and drops the checkpoint, or has ended
AfterSimpleTrain ==
    /\ cls = "Trainer"
    /\ pc \in {"validate", "validate_batch", "epoch_val_done", "epoch_step",
               "done", "ZeroDivisionError", "Exception"}

Training ==
    /\ pc \notin {"new", "AssertionError", "constructed", "patience"}
    /\ ~AfterSimpleTrain

Min(a, b) == IF a < b THEN a ELSE b

CeilDiv(n, k) == (n + k - 1) \div k

CountOp(evs, op) == Cardinality({n \in 1 .. Len(evs) : evs[n].op = op})

RECURSIVE Flatten(_)
Flatten(ss) == IF ss = <<>> THEN <<>> ELSE Head(ss) \o Flatten(Tail(ss))

\* C6: a trainer of any class built with grad_accum_count <= 0, or with
\* grad_accum_count > 1 and trunc_size # 0, fails in its constructor: the
\* model was not put in training mode and no batch is ever processed.
C6_InvalidAccumRejected ==
    (pc # "new" /\ (grad_accum_count <= 0
                     \/ (grad_accum_count > 1 /\ trunc_size # 0))) =>
        /\ pc = "AssertionError"
        /\ model_mode = "unset"
        /\ seen = 0
        /\ events = <<>>

\* a subclass rejected for accumulating with truncation on
C6_Witness ==
    /\ pc = "AssertionError"
    /\ cls = "LanguageModelTrainer"
    /\ grad_accum_count > 1
    /\ trunc_size # 0

\* the operations of the accumulation group holding batches first .. last
RECURSIVE BatchesOps(_, _)
BatchesOps(first, last) ==
    IF first > last THEN <<>>
    ELSE <<Ev("forward", first, 0), Ev("backward", first, 0)>>
         \o BatchesOps(first + 1, last)

\* the operations of an epoch of n batches in groups of k, from batch first
RECURSIVE EpochOps(_, _, _)
EpochOps(first, n, k) ==
    IF first >= n THEN <<>>
    ELSE <<Ev("zero_grad", -1, -1)>>
         \o BatchesOps(first, Min(first + k, n) - 1)
         \o <<Ev("step", -1, -1)>>
         \o EpochOps(first + k, n, k)

\* C7: with grad_accum_count = k > 1 an epoch over n batches is, group after
\* group, one zeroing, the forward and backward pass of every batch of the
\* group, one optimizer step; the partial trailing group is stepped too and
\* the steps number ceil(n / k).
C7_OneStepPerGroup ==
    (Training /\ trainer.grad_accum_count > 1) =>
        /\ IsPrefix(events, EpochOps(0, n_batches, trainer.grad_accum_count))
        /\ pc = "return" =>
              /\ events = EpochOps(0, n_batches, trainer.grad_accum_count)
              /\ CountOp(events, "step") =
                    CeilDiv(n_batches, trainer.grad_accum_count)
              /\ CountOp(events, "zero_grad") =
                    CeilDiv(n_batches, trainer.grad_accum_count)
              /\ Len(applied) = CeilDiv(n_batches, trainer.grad_accum_count)

\* an epoch of two groups, the second one partial
C7_Witness ==
    /\ pc = "return"
    /\ trainer.grad_accum_count = 2
    /\ n_batches = 3
    /\ CountOp(events, "step") = 2

\* the window starts of a batch, in order
RECURSIVE WindowStarts(_, _, _)
WindowStarts(j, target_size, trunc) ==
    IF j >= target_size - 1 THEN <<>>
    ELSE <<j>> \o WindowStarts(j + trunc, target_size, trunc)

\* the windows <<i, j>> of the batches bs, in order
RECURSIVE WindowsOf(_)
WindowsOf(bs) ==
    IF bs = <<>> THEN <<>>
    ELSE LET b == Head(bs)
             js == WindowStarts(0, b.target_size,
                                IF trainer.trunc_size # 0
                                  THEN trainer.trunc_size
                                  ELSE b.target_size)
         IN [n \in 1 .. Len(js) |-> <<b.i, js[n]>>] \o WindowsOf(Tail(bs))

\* C8: with grad_accum_count = 1 the operations are, window after window,
\* zero_grad, forward, backward, step of that window: one zeroing and one
\* step per window, no step outside a window, and at the end of the epoch
\* every window of every batch has been handled.
C8_StepPerWindow ==
    (Training /\ trainer.grad_accum_count = 1) =>
        /\ Len(events) % 4 = 0
        /\ \A m \in 0 .. (Len(events) \div 4) - 1 :
              LET w == <<events[4 * m + 2].i, events[4 * m + 2].j>>
              IN /\ events[4 * m + 1] = Ev("zero_grad", w[1], w[2])
                 /\ events[4 * m + 2] = Ev("forward", w[1], w[2])
                 /\ events[4 * m + 3] = Ev("backward", w[1], w[2])
                 /\ events[4 * m + 4] = Ev("step", w[1], w[2])
                 /\ applied[m + 1] = <<<<epoch, w[1], w[2]>>>>
        /\ Len(applied) = Len(events) \div 4
        /\ pc = "return" =>
              [m \in 1 .. Len(events) \div 4 |->
                    <<events[4 * m - 2].i, events[4 * m - 2].j>>]
                 = WindowsOf(Flatten(groups))

\* an epoch whose second batch was trained in two windows
C8_Witness ==
    /\ pc = "return"
    /\ trainer.grad_accum_count = 1
    /\ trainer.trunc_size = 2
    /\ n_batches >= 2
    /\ \E n \in 1 .. Len(events) : events[n] = Ev("step", 1, 2)

\* the batches of group g (1, 2, ...) among the batches delivered so far
GroupFirst(g) == (g - 1) * trainer.grad_accum_count
GroupSize(g) == Min(trainer.grad_accum_count, seen - GroupFirst(g))

\* the batches of the current group whose backward pass is done
BatchesDone ==
    IF pc = "ga_enter" \/ pc = "for_batch" THEN 0
    ELSE IF pc = "ga_window" /\ ga_j = 0 THEN ga_k - 1
    ELSE IF pc = "ga_window" THEN ga_k
    ELSE IF pc = "ga_batch" \/ pc = "ga_exit" THEN ga_k - 1
    ELSE Len(true_batchs)

\* C9: with grad_accum_count > 1 the gradient an optimizer step applies is
\* the sum of the contributions of exactly the batches of its group, and
\* inside a group the gradient holds the batches of the group done so far:
\* it is not zeroed between them, and it is zeroed between two groups.
C9_GradientIsGroupSum ==
    (Training /\ trainer.grad_accum_count > 1) =>
        /\ \A g \in 1 .. Len(applied) :
              applied[g] = [m \in 1 .. GroupSize(g) |->
                               <<epoch, GroupFirst(g) + m - 1, 0>>]
        /\ pc \in {"ga_batch", "ga_window", "ga_exit"} =>
              grad = [m \in 1 .. BatchesDone |->
                         <<epoch, true_batchs[m].i, 0>>]

\* the second group of the second epoch has been stepped
C9_Witness ==
    /\ epoch = 2
    /\ trainer.grad_accum_count = 2
    /\ Len(applied) = 2
    /\ applied[2] = << <<2, 2, 0>>, <<2, 3, 0>> >>

\* the batch indices of a list of batches
Indices(bs) == [n \in 1 .. Len(bs) |-> bs[n].i]

\* C10: train takes every batch of the iterator, in order, into exactly one
\* accumulation group: the groups handed to _gradient_accumulation,
\* followed by the batches still waiting, are the batches 0, 1, ... delivered
\* so far; every group but the last holds grad_accum_count batches, the
\* last between 1 and grad_accum_count; train returns only when the
\* iterator is exhausted, with every batch trained exactly once.
C10_EveryBatchInOneGroup ==
    Training =>
        /\ Indices(Flatten(groups))
              \o (IF pc \in {"for_batch"} THEN Indices(true_batchs) ELSE <<>>)
             = [n \in 1 .. seen |-> n - 1]
        /\ \A g \in 1 .. Len(groups) :
              /\ Len(groups[g]) >= 1
              /\ Len(groups[g]) <= trainer.grad_accum_count
              /\ g < Len(groups) => Len(groups[g]) = trainer.grad_accum_count
        /\ pc = "return" =>
              /\ seen = n_batches
              /\ true_batchs = <<>>
              /\ \A b \in 0 .. n_batches - 1 :
                    Cardinality({n \in 1 .. Len(events) :
                                    events[n] = Ev("forward", b, 0)}) = 1

\* four batches in groups of three: a full group and a trailing group of one
C10_Witness ==
    /\ pc = "return"
    /\ trainer.grad_accum_count = 3
    /\ n_batches = 4
    /\ Len(groups) = 2
    /\ Len(groups[2]) = 1

(***************************************************************************)
(* Claims about the statistics and the arguments Trainer.train hands on,   *)
(* checked under Spec.                                                     *)
(***************************************************************************)
\* the sum of two statistics, counter by counter
AddStats(a, b) ==
    [loss |-> a.loss + b.loss, n_words |-> a.n_words + b.n_words,
     n_correct |-> a.n_correct + b.n_correct,
     n_src_words |-> a.n_src_words + b.n_src_words,
     n_mt_words |-> a.n_mt_words + b.n_mt_words]

\* the statistics of the loss calls calls[n ..] made for the batches with
\* an index in lo .. hi
RECURSIVE CallStats(_, _, _, _)
CallStats(calls, n, lo, hi) ==
    IF n > Len(calls) THEN Statistics
    ELSE LET c == calls[n]
             rest == CallStats(calls, n + 1, lo, hi)
         IN IF c.batch.i >= lo /\ c.batch.i <= hi
              THEN AddStats(sharded_compute_loss(c.batch, c.cur_trunc,
                                                 c.trunc_size), rest)
              ELSE rest

\* the source words of the batches bs[n ..]
RECURSIVE SrcWords(_, _)
SrcWords(bs, n) ==
    IF n > Len(bs) THEN 0 ELSE bs[n].src_words + SrcWords(bs, n + 1)

\* what was trained in the full groups first .. last (1, 2, ...): the
\* statistics of their windows and the source words of their batches
GroupsStats(first, last) ==
    LET k == trainer.grad_accum_count
        lo == (first - 1) * k
        hi == last * k - 1
        bs == Flatten(groups)
    IN [CallStats(loss_calls, 1, lo, hi) EXCEPT
           !.n_src_words = SrcWords(SubSeq(bs, lo + 1, hi + 1), 1)]

\* the group after which the interval statistics were last replaced by
\* an empty Statistics before group g was trained
LastReset(g) == ((g - 1) \div report_every) * report_every

\* C11 as stated: report_func is called once after each completed group,
\* with the statistics of what was trained since the previous call, and the
\* interval statistics are an empty Statistics after each call.
C11_ResetAfterEachGroup ==
    Training =>
        /\ Len(reports) = idx
        /\ \A g \in 1 .. Len(reports) :
              /\ reports[g].batch = g - 1
              /\ reports[g].report_stats = GroupsStats(g, g)
              /\ reports[g].returned = Statistics

\* C11 as amended: report_func is called once after each full group (not
\* after the trailing partial one) with the statistics of what was trained
\* since the last reset; the interval statistics become what it returns:
\* an empty Statistics after every report_every-th group, and the
\* statistics it was given, unchanged, after the other groups.
C11_ReportPerFullGroup ==
    Training =>
        /\ Len(reports) = idx
        /\ pc = "return" =>
              Len(reports) = n_batches \div trainer.grad_accum_count
        /\ \A g \in 1 .. Len(reports) :
              /\ reports[g].batch = g - 1
              /\ reports[g].report_stats = GroupsStats(LastReset(g) + 1, g)
              /\ reports[g].returned =
                    IF g % report_every = 0 THEN Statistics
                    ELSE reports[g].report_stats
        /\ pc = "for_batch" /\ idx > 0 => report_stats = Last(reports).returned

\* reporting every second group: the first call keeps the statistics, the
\* second is given those of both groups and resets, the third starts anew
C11_Witness ==
    /\ report_every = 2
    /\ pc = "return"
    /\ Len(reports) = 3
    /\ reports[1].returned = reports[1].report_stats
    /\ reports[1].returned # Statistics
    /\ reports[2].report_stats.n_words > reports[1].report_stats.n_words
    /\ reports[2].returned = Statistics
    /\ reports[3].report_stats = GroupsStats(3, 3)

\* the windows (slices of the target) processed for the batch with index i,
\* in order
RECURSIVE BatchWindows(_, _, _)
BatchWindows(calls, n, i) ==
    IF n > Len(calls) THEN <<>>
    ELSE (IF calls[n].batch.i = i THEN <<calls[n].tgt>> ELSE <<>>)
         \o BatchWindows(calls, n + 1, i)

\* the batches whose window loop is over
FinishedBatches ==
    IF pc \in {"for_batch", "return", "group_done", "tail_done", "ga_exit"}
      THEN Flatten(groups)
      ELSE <<>>

\* windows that start at 0, follow one another without gap or overlap and
\* are T wide, the last one possibly narrower
Contiguous(ws, T) ==
    /\ Len(ws) >= 1
    /\ ws[1][1] = 0
    /\ \A n \in 1 .. Len(ws) :
          /\ ws[n][1] < ws[n][2]
          /\ ws[n][2] - ws[n][1] <= T
          /\ n < Len(ws) => /\ ws[n][2] - ws[n][1] = T
                            /\ ws[n + 1][1] = ws[n][2]

\* C18 as stated: with trunc_size T > 0 the windows of a batch whose target
\* is L long are [0:T), [T:2T), ..., contiguous, T wide but for the last,
\* and the last one ends at L, so that every timestep 0 .. L-1 is covered.
C18_WindowsCoverTarget ==
    (Training /\ trainer.trunc_size > 0) =>
        \A n \in 1 .. Len(FinishedBatches) :
            LET b == FinishedBatches[n]
                ws == BatchWindows(loss_calls, 1, b.i)
            IN /\ Contiguous(ws, trainer.trunc_size)
               /\ Last(ws)[2] = b.target_size

\* C18 as amended: with trunc_size T > 0 the windows of a batch whose
\* target is L long are [j : min(j+T, L)) for j = 0, T, 2T, ... below L-1:
\* ceil((L-1)/T) windows, contiguous, T wide but possibly the last; they
\* cover the timesteps 0 .. L-2, and the timestep L-1 as well unless L-1 is
\* a multiple of T, in which case the last window ends at L-1.
C18_WindowsCoverInputs ==
    (Training /\ trainer.trunc_size > 0) =>
        \A n \in 1 .. Len(FinishedBatches) :
            LET b == FinishedBatches[n]
                T == trainer.trunc_size
                L == b.target_size
                ws == BatchWindows(loss_calls, 1, b.i)
            IN /\ Contiguous(ws, T)
               /\ Len(ws) = CeilDiv(L - 1, T)
               /\ \A m \in 1 .. Len(ws) :
                     ws[m] = <<(m - 1) * T, Min(m * T, L)>>
               /\ Last(ws)[2] = IF (L - 1) % T = 0 THEN L - 1 ELSE L

\* trunc_size 3: a target of length 5 trained in the windows [0:3), [3:5),
\* the last one narrower than 3 and ending at 5, and one of length 4
\* trained in [0:3) alone, which ends at 3
C18_Witness ==
    /\ pc = "return"
    /\ trainer.trunc_size = 3
    /\ \E n, m \in 1 .. Len(Flatten(groups)) :
          /\ Flatten(groups)[n].target_size = 5
          /\ Flatten(groups)[m].target_size = 4
          /\ BatchWindows(loss_calls, 1, Flatten(groups)[n].i)
                = << <<0, 3>>, <<3, 5>> >>
          /\ BatchWindows(loss_calls, 1, Flatten(groups)[m].i)
                = << <<0, 3>> >>

\* the sentences or the non-padding target tokens of the batches bs[n ..]
RECURSIVE NormOf(_, _)
NormOf(bs, n) ==
    IF n > Len(bs) THEN 0
    ELSE (IF trainer.norm_method = "tokens" THEN bs[n].num_tokens
                                            ELSE bs[n].batch_size)
         + NormOf(bs, n + 1)

\* C19: the normalization handed to every sharded_compute_loss call is the
\* sum, over the batches of the group the call belongs to, of the sentences
\* (norm_method sents) or of the non-padding target tokens (tokens); the
\* accumulator holds the sum for the batches still waiting, 0 after a full
\* group, so that nothing leaks from one group or one epoch into another.
C19_NormalizationIsGroupSum ==
    Training =>
        /\ \A n \in 1 .. Len(loss_calls) :
              LET c == loss_calls[n]
                  g == (c.batch.i \div trainer.grad_accum_count) + 1
              IN /\ g <= Len(groups)
                 /\ c.normalization = NormOf(groups[g], 1)
        /\ pc = "for_batch" => normalization = NormOf(true_batchs, 1)
        /\ (pc = "for_batch" /\ true_batchs = <<>>) => normalization = 0

\* the second epoch, counting tokens: two groups of two batches were
\* trained with different normalizations
C19_Witness ==
    /\ epoch = 2
    /\ pc = "return"
    /\ trainer.norm_method = "tokens"
    /\ trainer.grad_accum_count = 2
    /\ Len(groups) = 2
    /\ Len(loss_calls) = 4
    /\ loss_calls[1].normalization = 13
    /\ loss_calls[4].normalization = 6

(***************************************************************************)
(* onmt/Loss.py: shardVariables, collectGrads, MemoryEfficientLoss.        *)
(*                                                                         *)
(* A tensor is the sequence of its rows along its first axis, the axis     *)
(* torch.split cuts, with the requires_grad flag and the gradient of the   *)
(* Variable that holds it: one entry for each row, 1 where a backward pass *)
(* has reached the row, and <<>> for the gradient None.  A row of targets  *)
(* holds one token id for each sentence, a row of outputs the arg-max      *)
(* prediction of the generator for each sentence, a row of an attention    *)
(* tensor one entry for each source position of each sentence, the last    *)
(* position of the upper bounds being the sink token.                      *)
(***************************************************************************)
\* onmt.Constants.PAD
PAD == 0

Tensor(rows, requires_grad) ==
    [rows |-> rows, requires_grad |-> requires_grad, grad |-> <<>>]

\* batch.tgt[1:] of n rows: in the first kind of batch the rows alternate
\* between [PAD, 3] and [2, PAD], in the second the first row is all padding
TargRows(n, kind) ==
    [r \in 1 .. n |->
        IF kind = 1 THEN (IF r % 2 = 1 THEN <<PAD, 3>> ELSE <<2, PAD>>)
        ELSE (IF r = 1 THEN <<PAD, PAD>> ELSE <<2, 3>>)]

\* the arg-max predictions for n rows of outputs; some equal the target,
\* some predict PAD where the target is PAD
PredRows(n, kind) ==
    [r \in 1 .. n |->
        IF kind = 1 THEN (IF r % 2 = 1 THEN <<PAD, 3>> ELSE <<3, PAD>>)
        ELSE (IF r = 1 THEN <<PAD, PAD>> ELSE <<2, 2>>)]

\* the keys of attns the loss terms read, and the tensor of each for n rows
AttnKeys == {"coverage", "copy", "upper_bounds", "true_fertility_vals",
             "predicted_fertility_vals"}

AttnTensor(key, n, requires_grad) ==
    IF key = "coverage"
      THEN Tensor([r \in 1 .. n |-> <<(<<r, 0>>), (<<0, 2>>)>>],
                  requires_grad)
    ELSE IF key = "copy"
      THEN Tensor([r \in 1 .. n |-> <<(<<2, 1>>), (<<1, 1>>)>>],
                  requires_grad)
    ELSE IF key = "upper_bounds"
      THEN Tensor([r \in 1 .. n |-> <<(<<r, 1, 5>>), (<<1, 0, 5>>)>>],
                  requires_grad)
    ELSE IF key = "true_fertility_vals"
      THEN Tensor([r \in 1 .. n |-> <<(<<1, 2>>), (<<1, 2>>)>>], FALSE)
    ELSE Tensor([r \in 1 .. n |-> <<(<<1 + 2 * r, 0>>), (<<1 + 2 * r, 0>>)>>],
                requires_grad)

\* what is wrong with the arguments of a call, if anything: a key missing
\* from attns, or a tensor whose first axis is not as long as that of outputs
Defects ==
    {[kind |-> "none", key |-> "none"]}
    \cup {[kind |-> "missing", key |-> k] : k \in AttnKeys}
    \cup {[kind |-> "short", key |-> "tgt"],
          [kind |-> "long", key |-> "copy"],
          [kind |-> "one", key |-> "predicted_fertility_vals"]}

\* the first axis of the tensor `key` when that of outputs has n rows
Extent(key, n, defect) ==
    IF defect.key # key THEN n
    ELSE IF defect.kind = "short" THEN n - 1
    ELSE IF defect.kind = "long" THEN n + 1
    ELSE IF defect.kind = "one" THEN 1
    ELSE n

\* opt.lambda_coverage, opt.lambda_exhaust, opt.lambda_fertility
lambda_coverage == 1
lambda_exhaust == 1
lambda_fertility == 1

RECURSIVE SumSeq(_)
SumSeq(s) == IF s = <<>> THEN 0 ELSE Head(s) + SumSeq(Tail(s))

\* n_shards of shardVariables for a first axis of size0 rows, one shard too
\* many when batches divides size0
n_shards_PlusOne(size0, batches) == (size0 \div batches) + 1

\* n_shards = ((list(variables.values())[0].size(0) - 1) // batches) + 1
n_shards(size0, batches) == ((size0 - 1) \div batches) + 1

\* torch.split(tensor, batches): the rows lo + 1 .. of a tensor cut into
\* pieces of `batches` rows, the last one holding what is left; a piece
\* keeps the index of its first row
RECURSIVE split(_, _, _)
split(rows, batches, lo) ==
    IF lo >= Len(rows) THEN <<>>
    ELSE LET hi == IF lo + batches < Len(rows) THEN lo + batches
                                               ELSE Len(rows)
         IN <<[lo |-> lo, rows |-> SubSeq(rows, lo + 1, hi)]>>
            \o split(rows, batches, hi)

\* dummies[k] of shardVariables: a new Variable on the same data for a
\* Variable that requires a gradient, with requires_grad = (not eval), and
\* the Variable itself otherwise
Dummy(variable, eval) ==
    IF variable.requires_grad
      THEN [rows |-> variable.rows, requires_grad |-> ~eval, grad |-> <<>>]
      ELSE variable

\* shardVariables filling the shards from the last piece to the first
shardVariables_Reversed(variables, batches, eval, first) ==
    LET n == n_shards(Len(variables[first].rows), batches)
        pieces == [k \in DOMAIN variables |->
                      split(Dummy(variables[k], eval).rows, batches, 0)]
    IN IF \E k \in DOMAIN variables : Len(pieces[k]) > n
         THEN [raised |-> "IndexError", shards |-> <<>>,
               dummies |-> [k \in DOMAIN variables |->
                               Dummy(variables[k], eval)]]
         ELSE [raised |-> "None",
               shards |-> [i \in 1 .. n |->
                             [k \in {x \in DOMAIN variables :
                                        n + 1 - i <= Len(pieces[x])} |->
                                 pieces[k][n + 1 - i]]],
               dummies |-> [k \in DOMAIN variables |->
                               Dummy(variables[k], eval)]]

\* shardVariables(variables, batches, eval), `first` being
\* list(variables.values())[0]: the shards and the dummies, or the
\* IndexError of shards[i][k] = v for a tensor cut into more pieces than
\* there are shards
shardVariables(variables, batches, eval, first) ==
    LET n == n_shards(Len(variables[first].rows), batches)
        pieces == [k \in DOMAIN variables |->
                      split(Dummy(variables[k], eval).rows, batches, 0)]
    IN IF \E k \in DOMAIN variables : Len(pieces[k]) > n
         THEN [raised |-> "IndexError", shards |-> <<>>,
               dummies |-> [k \in DOMAIN variables |->
                               Dummy(variables[k], eval)]]
         ELSE [raised |-> "None",
               shards |-> [i \in 1 .. n |->
                             [k \in {x \in DOMAIN variables :
                                        i <= Len(pieces[x])} |->
                                 pieces[k][i]]],
               dummies |-> [k \in DOMAIN variables |->
                               Dummy(variables[k], eval)]]

\* collectGrads returning every variable of the set
collectGrads_All(variables, dummy, keys) ==
    [inputs |-> keys, grads |-> [i \in 1 .. Len(keys) |-> dummy[keys[i]].grad]]

\* collectGrads(variables, dummy): the variables whose dummy has a gradient
\* and these gradients, in the order `keys` of the dictionary; an input is
\* given by its key
collectGrads(variables, dummy, keys) ==
    LET with == SelectSeq(keys, LAMBDA k : dummy[k].grad # <<>>)
    IN [inputs |-> with,
        grads |-> [i \in 1 .. Len(with) |-> dummy[with[i]].grad]]

\* NMTCriterion with a generator: nn.NLLLoss(weight, size_average=False)
\* with weight[PAD] = 0 is a sum over the positions whose target is not
\* PAD; a position costs 1 where the prediction is the target and 3
\* where it is not
NLL(pred, targ) ==
    IF targ = PAD THEN 0 ELSE IF pred = targ THEN 1 ELSE 3

\* the positions of some rows, row after row (view(-1))
RECURSIVE Positions(_)
Positions(rows) ==
    IF rows = <<>> THEN <<>> ELSE Head(rows) \o Positions(Tail(rows))

\* compute_std_loss and compute_copy_loss: loss_t of the criterion on the
\* scores of the generator, and scores_t by its arg-max predictions
compute_loss(out_rows, targ_rows) ==
    LET pred == Positions(out_rows)
        targ == Positions(targ_rows)
    IN [loss_t |-> SumSeq([p \in 1 .. Len(targ) |-> NLL(pred[p], targ[p])]),
        scores_t |-> pred]

\* score counting the correct predictions at every position
score_CountsPadding(loss_t, reg_t, scores_t, targ_t) ==
    LET targ == Positions(targ_t)
    IN [loss |-> loss_t, reg |-> reg_t,
        n_words |-> Cardinality({p \in 1 .. Len(targ) : targ[p] # PAD}),
        n_correct |-> Cardinality({p \in 1 .. Len(targ) :
                                      scores_t[p] = targ[p]}),
        n_src_words |-> 0]

\* MemoryEfficientLoss.score: pred_t.eq(targ_t) restricted by masked_select
\* to non_padding = targ_t.ne(PAD), and summed; non_padding.sum();
\* reg_t is 0 for None
score(loss_t, reg_t, scores_t, targ_t) ==
    LET targ == Positions(targ_t)
        non_padding == [p \in 1 .. Len(targ) |-> targ[p] # PAD]
        eq == [p \in 1 .. Len(targ) |-> scores_t[p] = targ[p]]
        selected == SelectSeq([p \in 1 .. Len(targ) |-> <<eq[p],
                                                          non_padding[p]>>],
                              LAMBDA x : x[2])
    IN [loss |-> loss_t, reg |-> reg_t,
        n_words |-> SumSeq([p \in 1 .. Len(targ) |->
                               IF non_padding[p] THEN 1 ELSE 0]),
        n_correct |-> SumSeq([p \in 1 .. Len(selected) |->
                                 IF selected[p][1] THEN 1 ELSE 0]),
        n_src_words |-> 0]

\* the keys of the variable set in the order they are entered
KeyOrder(self) ==
    <<"out_t", "targ_t">>
    \o (IF self.coverage_loss THEN <<"coverage_t">> ELSE <<>>)
    \o (IF self.copy_loss THEN <<"attn_t", "align_t">> ELSE <<>>)
    \o (IF self.exhaustion_loss THEN <<"upper_bounds_t">> ELSE <<>>)
    \o (IF self.fertility_loss
          THEN <<"true_fertility_vals_t", "predicted_fertility_vals_t">>
          ELSE <<>>)

\* the keys of attns read to build the variable set, in the order read
AttnsRead(self) ==
    (IF self.coverage_loss THEN <<"coverage">> ELSE <<>>)
    \o (IF self.copy_loss THEN <<"copy">> ELSE <<>>)
    \o (IF self.exhaustion_loss THEN <<"upper_bounds">> ELSE <<>>)
    \o (IF self.fertility_loss
          THEN <<"true_fertility_vals", "predicted_fertility_vals">>
          ELSE <<>>)

\* original = {"out_t": outputs, "targ_t": batch.tgt[1:], ...}
Original(self, batch, outputs, attns) ==
    [k \in {KeyOrder(self)[i] : i \in 1 .. Len(KeyOrder(self))} |->
        IF k = "out_t" THEN outputs
        ELSE IF k = "targ_t" THEN batch.tgt
        ELSE IF k = "align_t" THEN batch.alignment
        ELSE IF k = "coverage_t" THEN attns["coverage"]
        ELSE IF k = "attn_t" THEN attns["copy"]
        ELSE IF k = "upper_bounds_t" THEN attns["upper_bounds"]
        ELSE IF k = "true_fertility_vals_t" THEN attns["true_fertility_vals"]
        ELSE attns["predicted_fertility_vals"]]

\* the first failure of the body of the shard loop for the shard s, and
\* whether the loss of the criterion was computed before it: a key the
\* shard lacks is a KeyError, tensors of different sizes in one operation a
\* RuntimeError
ShardFailure(self, s) ==
    LET has(k) == k \in DOMAIN s
        size(k) == Len(s[k].rows)
        crit == IF ~self.copy_loss
                  THEN IF ~has("out_t") \/ ~has("targ_t") THEN "KeyError"
                       ELSE IF size("out_t") # size("targ_t")
                         THEN "RuntimeError" ELSE "None"
                  ELSE IF ~has("out_t") \/ ~has("targ_t") \/ ~has("attn_t")
                          \/ ~has("align_t") THEN "KeyError"
                       ELSE IF size("out_t") # size("targ_t")
                               \/ size("out_t") # size("attn_t")
                               \/ size("targ_t") # size("align_t")
                         THEN "RuntimeError" ELSE "None"
        coverage == IF ~self.coverage_loss THEN "None"
                    ELSE IF ~has("coverage_t") \/ ~has("attn_t")
                      THEN "KeyError"
                    ELSE IF size("coverage_t") # size("attn_t")
                      THEN "RuntimeError" ELSE "None"
        exhaustion == IF self.exhaustion_loss /\ ~has("upper_bounds_t")
                        THEN "KeyError" ELSE "None"
        fertility == IF self.fertility_loss
                        /\ has("predicted_fertility_vals_t")
                        /\ ~has("true_fertility_vals_t")
                       THEN "KeyError" ELSE "None"
    IN IF crit # "None" THEN [raised |-> crit, computed |-> FALSE]
       ELSE IF coverage # "None"
         THEN [raised |-> coverage, computed |-> TRUE]
       ELSE IF exhaustion # "None"
         THEN [raised |-> exhaustion, computed |-> TRUE]
       ELSE [raised |-> fertility, computed |-> TRUE]

Abs(x) == IF x < 0 THEN 0 - x ELSE x

\* torch.nn.L1Loss(): the mean of |input - target| over the entries; the
\* mean of the tensors of this model is a whole number
l1loss(input, target) ==
    LET x == Positions(input)
        y == Positions(target)
    IN SumSeq([e \in 1 .. Len(x) |-> Abs(x[e] - y[e])]) \div Len(x)

\* torch.min(a, b).sum(): the entry-wise minimum of two tensors, summed
MinSum(a, b) ==
    SumSeq([r \in 1 .. Len(a) |->
              LET x == Positions(a[r])
                  y == Positions(b[r])
              IN SumSeq([e \in 1 .. Len(x) |->
                           IF x[e] < y[e] THEN x[e] ELSE y[e]])])

\* torch.index_select(u_last_timestep, 1, indices).sum(): the upper
\* bounds of a row without the last position of each sentence
SumWithoutSink(row) ==
    SumSeq([b \in 1 .. Len(row) |->
              SumSeq(SubSeq(row[b], 1, Len(row[b]) - 1))])

\* reg_t of a shard: lambda_fertility times the L1 loss of the first rows
\* of the predicted and the true fertilities, if the term is enabled and
\* the shard holds the prediction; 0 stands for None
ShardReg(self, s) ==
    IF self.fertility_loss /\ "predicted_fertility_vals_t" \in DOMAIN s
      THEN lambda_fertility
           * l1loss(s["predicted_fertility_vals_t"].rows[1],
                    s["true_fertility_vals_t"].rows[1])
      ELSE 0

\* loss_t of a shard: the criterion, plus lambda_coverage times the sum of
\* torch.min(coverage_t, attn_t), plus lambda_exhaust times the upper bounds
\* of the last row of the shard, plus reg_t
ShardLoss(self, s) ==
    compute_loss(s["out_t"].rows, s["targ_t"].rows).loss_t
    + (IF self.coverage_loss
         THEN lambda_coverage
              * MinSum(s["coverage_t"].rows, s["attn_t"].rows)
         ELSE 0)
    + (IF self.exhaustion_loss
         THEN lambda_exhaust
              * SumWithoutSink(
                   s["upper_bounds_t"].rows[Len(s["upper_bounds_t"].rows)])
         ELSE 0)
    + ShardReg(self, s)

\* self.score(loss_t, reg_t, scores_t, s["targ_t"]) of a shard
ShardStats(self, s) ==
    score(ShardLoss(self, s), ShardReg(self, s),
          compute_loss(s["out_t"].rows, s["targ_t"].rows).scores_t,
          s["targ_t"].rows)

\* the rows of the dummy k that the loss of the shard s depends on
RowsUsed(self, s, k) ==
    IF k \notin DOMAIN s THEN {}
    ELSE LET lo == s[k].lo
             all == lo + 1 .. lo + Len(s[k].rows)
         IN IF k = "out_t" THEN all
            ELSE IF k = "attn_t"
              THEN (IF self.copy_loss \/ self.coverage_loss THEN all ELSE {})
            ELSE IF k = "coverage_t"
              THEN (IF self.coverage_loss THEN all ELSE {})
            ELSE IF k = "upper_bounds_t"
              THEN (IF self.exhaustion_loss THEN {lo + Len(s[k].rows)}
                                            ELSE {})
            ELSE IF k = "predicted_fertility_vals_t"
              THEN (IF self.fertility_loss THEN {lo + 1} ELSE {})
            ELSE {}

\* loss_t.div(batch.batchSize).backward(): the gradient reaches the rows
\* used of every dummy that requires one
Backward(self, s, dummy) ==
    [k \in DOMAIN dummy |->
        IF dummy[k].requires_grad /\ RowsUsed(self, s, k) # {}
          THEN [dummy[k] EXCEPT !.grad =
                   [r \in 1 .. Len(dummy[k].rows) |->
                       IF r \in RowsUsed(self, s, k) THEN 1
                       ELSE IF dummy[k].grad = <<>> THEN 0
                       ELSE dummy[k].grad[r]]]
          ELSE dummy[k]]

\* the backward pass taken in evaluation mode too
DoBackward_Always(self) == TRUE

\* if not self.eval: loss_t.div(batch.batchSize).backward()
DoBackward(self) == ~self.eval

\* stats = Statistics(); original = {...}: a key missing from attns is a
\* KeyError
loss_begin ==
    /\ pc = "loss_new"
    /\ me_stats' = Loss_Statistics
    /\ LET read == AttnsRead(me_loss)
           missing == SelectSeq(read, LAMBDA k : k \notin DOMAIN me_attns)
       IN IF missing # <<>>
            THEN /\ pc' = "KeyError"
                 /\ UNCHANGED original
            ELSE /\ pc' = "shardVariables"
                 /\ original' = Original(me_loss, me_batch, me_outputs,
                                         me_attns)
    /\ UNCHANGED <<cfgVars, trainer, model_mode, progress_step, epoch,
                   total_stats, report_stats, idx, true_batchs, accum,
                   normalization, n_batches, seen, gaVars, optVars, logVars,
                   esVars, statVars, iterVars, me_loss, me_batch, me_outputs,
                   me_attns,
                   shards, dummies, shard_i, me_events, me_ret,
                   patienceVars>>

\* shards, dummies = shardVariables(original, self.max_batches, self.eval);
\* which tensor list(variables.values())[0] is depends on the order of the
\* dictionary, which the language leaves open
loss_shardVariables ==
    /\ pc = "shardVariables"
    /\ \E first \in DOMAIN original :
          LET r == shardVariables(original, me_loss.max_batches,
                                  me_loss.eval, first)
          IN /\ pc' = IF r.raised = "None" THEN "for_shard" ELSE r.raised
             /\ shards' = r.shards
             /\ dummies' = r.dummies
    /\ shard_i' = 1
    /\ UNCHANGED <<cfgVars, trainer, model_mode, progress_step, epoch,
                   total_stats, report_stats, idx, true_batchs, accum,
                   normalization, n_batches, seen, gaVars, optVars, logVars,
                   esVars, statVars, iterVars, me_loss, me_batch, me_outputs,
                   me_attns,
                   original, me_stats, me_events, me_ret, patienceVars>>

\* for s in shards: the loss of the criterion, the enabled terms,
\* stats.update(self.score(...)), and the backward pass unless self.eval
loss_for_shard ==
    /\ pc = "for_shard"
    /\ shard_i <= Len(shards)
    /\ LET s == shards[shard_i]
           f == ShardFailure(me_loss, s)
           computed == [op |-> "loss", shard |-> shard_i]
       IN IF f.raised # "None"
            THEN /\ pc' = f.raised
                 /\ me_events' = IF f.computed
                                   THEN Append(me_events, computed)
                                   ELSE me_events
                 /\ UNCHANGED <<me_stats, dummies, shard_i>>
            ELSE /\ me_stats' =
                       Loss_Statistics_update(me_stats,
                                              ShardStats(me_loss, s))
                 /\ IF DoBackward(me_loss)
                      THEN /\ me_events' =
                                me_events \o
                                <<computed,
                                  [op |-> "backward", shard |-> shard_i,
                                   div |-> me_batch.batchSize]>>
                           /\ dummies' = Backward(me_loss, s, dummies)
                      ELSE /\ me_events' = Append(me_events, computed)
                           /\ UNCHANGED dummies
                 /\ shard_i' = shard_i + 1
                 /\ UNCHANGED pc
    /\ UNCHANGED <<cfgVars, trainer, model_mode, progress_step, epoch,
                   total_stats, report_stats, idx, true_batchs, accum,
                   normalization, n_batches, seen, gaVars, optVars, logVars,
                   esVars, statVars, iterVars, me_loss, me_batch, me_outputs,
                   me_attns,
                   original, shards, me_ret, patienceVars>>

\* inputs, grads = collectGrads(original, dummies);
\* return stats, inputs, grads
loss_return ==
    /\ pc = "for_shard"
    /\ shard_i > Len(shards)
    /\ LET g == collectGrads(original, dummies, KeyOrder(me_loss))
       IN me_ret' = [stats |-> me_stats, inputs |-> g.inputs,
                     grads |-> g.grads]
    /\ pc' = "loss_returned"
    /\ UNCHANGED <<cfgVars, trainer, model_mode, progress_step, epoch,
                   total_stats, report_stats, idx, true_batchs, accum,
                   normalization, n_batches, seen, gaVars, optVars, logVars,
                   esVars, statVars, iterVars, me_loss, me_batch, me_outputs,
                   me_attns,
                   original, shards, dummies, shard_i, me_stats, me_events,
                   patienceVars>>

(***************************************************************************)
(* SpecLoss: one call of MemoryEfficientLoss.loss, for every choice of the *)
(* loss terms, of evaluation or training, of the shard size, and of what,  *)
(* if anything, is wrong with the tensors handed in.                       *)
\* num_tokens of Trainer.train: the entries of batch.tgt[1:] that are not
\* the padding index
num_tokens(tgt_rows) ==
    LET targ == Positions(tgt_rows)
    IN SumSeq([p \in 1 .. Len(targ) |-> IF targ[p] # PAD THEN 1 ELSE 0])

\* the normalization Trainer.train hands to _gradient_accumulation for a
\* group that holds the one batch
GroupNormalization(method, batch) ==
    IF method = "tokens" THEN 0 + num_tokens(batch.tgt.rows)
                         ELSE 0 + batch.batch_size

(***************************************************************************)
InitLoss ==
    /\ cls = "Trainer"
    /\ grad_accum_count = 1
    /\ trunc_size = 0
    /\ norm_method \in NormMethods
    /\ report_every = 1
    /\ start_val_arg = 0
    /\ valid_iter = "None"
    /\ n_valid = 0
    /\ trainer = "None"
    /\ pc = "loss_new"
    /\ model_mode = "unset"
    /\ progress_step = 0
    /\ epoch = 1
    /\ total_stats = Statistics
    /\ report_stats = Statistics
    /\ idx = 0
    /\ true_batchs = <<>>
    /\ accum = 0
    /\ n_batches = 0
    /\ seen = 0
    /\ ga_ret = "none"
    /\ ga_k = 0
    /\ ga_j = 0
    /\ dec_state = NoState
    /\ grad = <<>>
    /\ applied = <<>>
    /\ events = <<>>
    /\ groups = <<>>
    /\ loss_calls = <<>>
    /\ reports = <<>>
    /\ current_batches_processed = 0
    /\ valid_stats_epoch = <<>>
    /\ val_ret = "none"
    /\ val_k = 0
    /\ val_stats = Statistics
    /\ val_q = 0
    /\ val_log = <<>>
    /\ checkpoints = <<>>
    /\ stat_class = "None"
    /\ stat_self = Statistics
    /\ stat_arg = Statistics
    /\ stat_hist = <<>>
    /\ stat_init = Statistics
    /\ stat_ret = NoCall
    /\ tolerance = 0
    /\ current_tolerance = 0
    /\ best_score = Inf
    /\ status = "unset"
    /\ best_saves = 0
    /\ obs = <<>>
    /\ IterIdle
    /\ hist = <<>>
    /\ \E n \in 1 .. MaxLen, kind \in {1, 2}, defect \in Defects,
          eval \in BOOLEAN, requires_grad \in BOOLEAN :
          /\ defect.kind = "short" => n >= 2
          /\ ~eval => requires_grad
          /\ me_loss \in [eval : {eval}, max_batches : 1 .. MaxLen,
                          copy_loss : BOOLEAN, coverage_loss : BOOLEAN,
                          exhaustion_loss : BOOLEAN,
                          fertility_loss : BOOLEAN]
          /\ me_batch =
                [tgt |-> Tensor(TargRows(Extent("tgt", n, defect), kind),
                                FALSE),
                 alignment |-> Tensor([r \in 1 .. n |-> r], FALSE),
                 batch_size |-> 2,
                 batchSize |-> 2]
          /\ normalization = GroupNormalization(norm_method, me_batch)
          /\ me_outputs = Tensor(PredRows(n, kind), requires_grad)
          /\ me_attns =
                [k \in AttnKeys \ (IF defect.kind = "missing"
                                     THEN {defect.key} ELSE {}) |->
                    AttnTensor(k, Extent(k, n, defect), requires_grad)]
    /\ original = <<>>
    /\ shards = <<>>
    /\ dummies = <<>>
    /\ shard_i = 0
    /\ me_stats = Loss_Statistics
    /\ me_events = <<>>
    /\ me_ret = [stats |-> Loss_Statistics, inputs |-> <<>>, grads |-> <<>>]

NextLoss ==
    \/ loss_begin
    \/ loss_shardVariables
    \/ loss_for_shard
    \/ loss_return

SpecLoss == InitLoss /\ [][NextLoss]_vars

(***************************************************************************)
(* SpecIter: one DatasetLazyIter (train.py) built over a generator of      *)
(* datasets and consumed once, by the loop of Trainer.train or by the loop *)
(* of Trainer.validate.  A dataset is named by its position in the order   *)
(* the generator yields, a batch by its dataset and its position in it.    *)
(***************************************************************************)
\* the most datasets the generator yields
MaxDatasets == 3
\* the number of batches a dataset is cut into
DatasetSizes == {1, 2}

\* the k-th batch of the dataset d
DatasetBatch(d, k) ==
    [dataset |-> d, batch |-> k, batch_size |-> 2, num_tokens |-> 3]

\* DatasetLazyIter._next_dataset_iterator(dataset_iter), the generator
\* having yielded `taken` of the datasets ds: self.cur_dataset becomes the
\* next dataset and an iterator over it is returned, or the generator is
\* exhausted, self.cur_dataset is left alone and None is returned
next_dataset_iterator(ds, taken, cur) ==
    IF taken < Len(ds)
      THEN [cur_dataset |-> taken + 1,
            cur_iter |-> [dataset |-> taken + 1, batch |-> 1],
            dataset_iter |-> taken + 1]
      ELSE [cur_dataset |-> cur, cur_iter |-> NoIter, dataset_iter |-> taken]

\* DatasetLazyIter.get_cur_dataset
get_cur_dataset == cur_dataset

\* the loss calls _gradient_accumulation makes for the batches bs, the
\* loss holding the dataset cur
ScoreGroup(bs, cur) ==
    [k \in 1 .. Len(bs) |-> [batch |-> bs[k], cur_dataset |-> cur]]

\* DatasetLazyIter.__init__: the first dataset is taken from the generator
DatasetLazyIter_init ==
    /\ pc = "it_new"
    /\ LET r == next_dataset_iterator(datasets, dataset_iter, cur_dataset)
       IN /\ cur_dataset' = r.cur_dataset
          /\ cur_iter' = r.cur_iter
          /\ dataset_iter' = r.dataset_iter
          /\ pc' = IF r.cur_iter # NoIter THEN "it_loop"
                                          ELSE "AssertionError"
    /\ UNCHANGED <<cfgVars, trainer, model_mode, progress_step, epoch,
                   total_stats, report_stats, idx, true_batchs, accum,
                   normalization, n_batches, seen, gaVars, optVars, logVars,
                   esVars, statVars, lossVars, patienceVars, datasets,
                   is_train, delivered, loss_cur_dataset, scored>>

\* for batch in self.cur_iter: yield batch, and the body of the consumer's
\* loop for that batch.  Trainer.train stores get_cur_dataset() in the
\* training loss, appends the batch to true_batchs and hands a full group
\* to _gradient_accumulation; Trainer.validate stores get_cur_dataset() in
\* the validation loss and scores the batch
iter_yield ==
    /\ pc = "it_loop"
    /\ cur_iter # NoIter
    /\ cur_iter.batch <= datasets[cur_iter.dataset]
    /\ LET batch == DatasetBatch(cur_iter.dataset, cur_iter.batch)
           got == get_cur_dataset
           group == Append(true_batchs, batch)
       IN /\ cur_iter' = [cur_iter EXCEPT !.batch = @ + 1]
          /\ delivered' = Append(delivered,
                                 [batch |-> batch, cur_dataset |-> got])
          /\ loss_cur_dataset' = got
          /\ IF is_train
               THEN IF accum + 1 = trainer.grad_accum_count
                      THEN /\ scored' = scored \o ScoreGroup(group, got)
                           /\ groups' = Append(groups, group)
                           /\ true_batchs' = <<>>
                           /\ accum' = 0
                           /\ normalization' = 0
                           /\ idx' = idx + 1
                      ELSE /\ true_batchs' = group
                           /\ accum' = accum + 1
                           /\ normalization' = normalization + BatchNorm(batch)
                           /\ UNCHANGED <<scored, groups, idx>>
               ELSE /\ scored' = Append(scored, [batch |-> batch,
                                                 cur_dataset |-> got])
                    /\ UNCHANGED <<true_batchs, accum, normalization,
                                   groups, idx>>
    /\ UNCHANGED <<cfgVars, trainer, pc, model_mode, progress_step, epoch,
                   total_stats, report_stats, n_batches, seen, gaVars, grad,
                   applied, events, logVars, esVars, statVars, lossVars,
                   patienceVars, datasets, dataset_iter, is_train,
                   cur_dataset>>

\* the batches of self.cur_iter are exhausted:
\* self.cur_iter = self._next_dataset_iterator(dataset_iter)
iter_next_dataset ==
    /\ pc = "it_loop"
    /\ cur_iter # NoIter
    /\ cur_iter.batch > datasets[cur_iter.dataset]
    /\ LET r == next_dataset_iterator(datasets, dataset_iter, cur_dataset)
       IN /\ cur_dataset' = r.cur_dataset
          /\ cur_iter' = r.cur_iter
          /\ dataset_iter' = r.dataset_iter
    /\ UNCHANGED <<cfgVars, trainVars, gaVars, optVars, logVars, esVars,
                   statVars, lossVars, patienceVars, datasets, is_train,
                   delivered, loss_cur_dataset, scored>>

\* self.cur_iter is None: the iteration stops, and Trainer.train hands a
\* trailing partial group to _gradient_accumulation
iter_stop ==
    /\ pc = "it_loop"
    /\ cur_iter = NoIter
    /\ pc' = "it_done"
    /\ IF is_train /\ Len(true_batchs) > 0
         THEN /\ scored' = scored \o ScoreGroup(true_batchs,
                                                loss_cur_dataset)
              /\ groups' = Append(groups, true_batchs)
              /\ true_batchs' = <<>>
         ELSE UNCHANGED <<scored, groups, true_batchs>>
    /\ UNCHANGED <<cfgVars, trainer, model_mode, progress_step, epoch,
                   total_stats, report_stats, idx, accum, normalization,
                   n_batches, seen, gaVars, grad, applied, events, logVars,
                   esVars, statVars, lossVars, patienceVars, datasets,
                   dataset_iter, is_train, cur_dataset, cur_iter, delivered,
                   loss_cur_dataset>>

InitIter ==
    /\ cls = "Trainer"
    /\ grad_accum_count \in 1 .. MaxAccum
    /\ trunc_size = 0
    /\ norm_method \in NormMethods
    /\ report_every = 1
    /\ start_val_arg = 0
    /\ valid_iter = "None"
    /\ n_valid = 0
    /\ trainer = TrainerArgs
    /\ pc = "it_new"
    /\ model_mode \in {"train", "eval"}
    /\ progress_step = 0
    /\ epoch = 1
    /\ total_stats = Statistics
    /\ report_stats = Statistics
    /\ idx = 0
    /\ true_batchs = <<>>
    /\ accum = 0
    /\ normalization = 0
    /\ n_batches = 0
    /\ seen = 0
    /\ ga_ret = "none"
    /\ ga_k = 0
    /\ ga_j = 0
    /\ dec_state = NoState
    /\ grad = <<>>
    /\ applied = <<>>
    /\ events = <<>>
    /\ groups = <<>>
    /\ loss_calls = <<>>
    /\ reports = <<>>
    /\ current_batches_processed = 0
    /\ valid_stats_epoch = <<>>
    /\ val_ret = "none"
    /\ val_k = 0
    /\ val_stats = Statistics
    /\ val_q = 0
    /\ val_log = <<>>
    /\ checkpoints = <<>>
    /\ stat_class = "None"
    /\ stat_self = Statistics
    /\ stat_arg = Statistics
    /\ stat_hist = <<>>
    /\ stat_init = Statistics
    /\ stat_ret = NoCall
    /\ LossIdle
    /\ tolerance = 0
    /\ current_tolerance = 0
    /\ best_score = Inf
    /\ status = "unset"
    /\ best_saves = 0
    /\ obs = <<>>
    /\ hist = <<>>
    /\ \E n \in 1 .. MaxDatasets : datasets \in [1 .. n -> DatasetSizes]
    /\ dataset_iter = 0
    /\ is_train = (model_mode = "train")
    /\ cur_dataset = 0
    /\ cur_iter = NoIter
    /\ delivered = <<>>
    /\ loss_cur_dataset = 0
    /\ scored = <<>>

NextIter ==
    \/ DatasetLazyIter_init
    \/ iter_yield
    \/ iter_next_dataset
    \/ iter_stop

SpecIter == InitIter /\ [][NextIter]_vars

(***************************************************************************)
(* Claims about the algebra of Statistics.update and about accuracy and    *)
(* ppl, checked under SpecStats.                                           *)
(***************************************************************************)
\* the permutations of 1 .. n
Perms(n) == {p \in [1 .. n -> 1 .. n] : \A i, j \in 1 .. n :
                                            p[i] = p[j] => i = j}

\* update of the class of the object at hand
ClassUpdate(self, stat) ==
    IF stat_class = "onmt.Trainer.Statistics"
      THEN Statistics_update(self, stat)
      ELSE Loss_Statistics_update(self, stat)

\* the objects ss[n ..] merged into acc one after the other
RECURSIVE Merge(_, _, _)
Merge(acc, ss, n) ==
    IF n > Len(ss) THEN acc ELSE Merge(ClassUpdate(acc, ss[n]), ss, n + 1)

\* the freshly constructed object of the class at hand
Zero ==
    IF stat_class = "onmt.Trainer.Statistics" THEN Statistics
                                               ELSE Loss_Statistics

Totals(s) == <<s.loss, s.n_words, s.n_correct>>

\* the totals of the objects of stat_hist taken in the order p and merged
\* in two groups: the first k into the object at hand, the others into an
\* empty accumulator that is merged last
Regrouped(p, k) ==
    LET n == Len(stat_hist)
        ss == [i \in 1 .. n |-> stat_hist[p[i]]]
        left == Merge(stat_init, SubSeq(ss, 1, k), 1)
        right == Merge(Zero, SubSeq(ss, k + 1, n), 1)
    IN ClassUpdate(left, right)

\* the totals do not depend on the order of the updates nor on their
\* grouping
C21_OrderAndGrouping ==
    pc = "stats" =>
        \A p \in Perms(Len(stat_hist)) : \A k \in 0 .. Len(stat_hist) :
            Totals(Regrouped(p, k)) = Totals(stat_self)

\* an update with a freshly constructed object changes nothing
C21_ZeroIsIdentity ==
    (stat_hist' # stat_hist /\ stat_arg = Zero) => stat_self' = stat_self

\* C21 as stated: update is associative and commutative with the freshly
\* constructed Statistics as identity: merging the same objects in any order
\* and any grouping gives the same loss, n_words and n_correct, and merging
\* a zero object changes no counter.
C21_UpdateIsCommutativeMonoid ==
    []C21_OrderAndGrouping /\ [][C21_ZeroIsIdentity]_vars

\* the sum of the losses merged so far, without any rounding
RECURSIVE ExactLoss(_)
ExactLoss(n) == IF n = 0 THEN stat_init.loss
                ELSE ExactLoss(n - 1) + stat_hist[n].loss

\* n_words and n_correct are the same for every order and grouping; so is
\* the loss when no sum is rounded, and when at most two objects are merged
\* into an empty accumulator; a loss that was rounded is, for every order
\* and grouping, within half the spacing of the floats per addition of the
\* sum without rounding
C21_CountsExactLossRounded ==
    pc = "stats" =>
        LET n == Len(stat_hist)
            exact == ExactLoss(n)
        IN \A p \in Perms(n) : \A k \in 0 .. n :
              LET t == Regrouped(p, k)
              IN /\ t.n_words = stat_self.n_words
                 /\ t.n_correct = stat_self.n_correct
                 /\ exact < FloatExact =>
                       /\ t.loss = exact
                       /\ stat_self.loss = exact
                 /\ (stat_init = Zero /\ n <= 2) => t.loss = stat_self.loss
                 /\ 2 * Abs(t.loss - exact)
                       <= (n + 1) * FloatSpacing(exact)

\* C21 as amended: update is associative and commutative on the counts
\* n_words and n_correct, with the freshly constructed Statistics as
\* identity: merging the same objects in any order and any grouping gives
\* the same n_words and n_correct, and merging a zero object changes no
\* counter.  On loss, a float, update is commutative but associative only
\* as long as no sum is rounded: the totals of two orders or groupings are
\* the same when every sum is exact and within the rounding of the
\* additions of one another otherwise.
C21_CountsCommuteLossUpToRounding ==
    []C21_CountsExactLossRounded /\ [][C21_ZeroIsIdentity]_vars

\* three different objects were merged into an empty accumulator, one of
\* them with a loss of 2 ** FloatBits: the counts are those of every other
\* order, the loss is not
C21_Witness ==
    /\ pc = "stats"
    /\ stat_init = Zero
    /\ Len(stat_hist) = 3
    /\ stat_hist[1] # stat_hist[2]
    /\ stat_hist[2] # stat_hist[3]
    /\ stat_hist[1] # stat_hist[3]
    /\ Zero \notin {stat_hist[1], stat_hist[2], stat_hist[3]}
    /\ stat_hist[1].loss = FloatExact
    /\ stat_self.n_words = 9
    /\ \E p \in Perms(3) :
          /\ Regrouped(p, 3).loss # stat_self.loss
          /\ Regrouped(p, 3).n_words = stat_self.n_words
          /\ Regrouped(p, 3).n_correct = stat_self.n_correct

\* C22: accuracy() and ppl() of an object with n_words == 0 fail with a
\* division by zero and return no value in its place; the counters of the
\* object are as they were. With words they return a value.
C22_ZeroWordsRaises ==
    [][(stat_ret' # stat_ret /\ stat_ret'.op # "none") =>
         /\ stat_ret'.op \in {"accuracy", "ppl"}
         /\ stat_self' = stat_self
         /\ (stat_self.n_words = 0) <=>
               (stat_ret'.raised = "ZeroDivisionError")
         /\ (stat_self.n_words # 0) <=> (stat_ret'.raised = "None")]_vars

\* ppl was called on a fresh object
C22_Witness ==
    /\ pc = "stats"
    /\ stat_self = Zero
    /\ stat_ret.op = "ppl"
    /\ stat_ret.raised = "ZeroDivisionError"

\* C23: for n_words > 0 the exponent of ppl() is min(loss / n_words, 100):
\* 100 when loss / n_words is at least 100, loss / n_words when it is below.
C23_PplClampsExponent ==
    (stat_ret.op = "ppl" /\ stat_self.n_words > 0) =>
        /\ stat_ret.raised = "None"
        /\ stat_self.loss >= 100 * stat_self.n_words =>
              stat_ret.num = 100 * stat_ret.den
        /\ stat_self.loss < 100 * stat_self.n_words =>
              stat_ret.num * stat_self.n_words = stat_self.loss * stat_ret.den

\* ppl of an object with loss / n_words = 300 / 3, exactly 100
C23_Witness ==
    /\ stat_ret.op = "ppl"
    /\ stat_self.loss = 300
    /\ stat_self.n_words = 3
    /\ stat_ret.num = 100
    /\ stat_ret.den = 1

(***************************************************************************)
(* Claims about train, validate and the patience, checked under            *)
(* SpecEarlyStop.                                                          *)
(***************************************************************************)
\* the control is inside train (Trainer.train or
\* EarlyStoppingTrainer.train), up to its return
InTrain ==
    \/ pc \in {"for_batch", "group_done", "tail_done", "es_for_batch",
                "es_group_done", "val_check", "val_done", "es_break",
                "es_tail_done", "ga_enter", "ga_batch", "ga_window",
                "ga_exit", "return"}
    \/ pc \in {"validate", "validate_batch"} /\ val_ret = "train"

\* C12: the total statistics of train, of either trainer, are at every
\* point and at its return the field-wise sum of the statistics of every
\* window trained in this call (one loss call per forward pass), also when
\* the epoch was cut short by STOPPED.
C12_TotalStatsSumOfWindows ==
    InTrain =>
        /\ total_stats = CallStats(loss_calls, 1, 0, n_batches)
        /\ Len(loss_calls) = CountOp(events, "forward")
        /\ Len(loss_calls) = CountOp(events, "backward")

\* an epoch of two batches per group stopped after its third batch: the
\* batch still pending was trained after the break and is in the total
C12_Witness ==
    /\ pc = "return"
    /\ cls = "EarlyStoppingTrainer"
    /\ val_log # <<>>
    /\ Last(val_log).status = STOPPED
    /\ Last(val_log).seen = 3
    /\ Last(val_log).pending = 1
    /\ Len(loss_calls) = 3
    /\ total_stats = CallStats(loss_calls, 1, 0, 2)
    /\ total_stats.n_words > 0

\* the operations of a validation of the batches k .. n - 1
RECURSIVE ValidOps(_, _)
ValidOps(k, n) ==
    IF k >= n THEN <<>>
    ELSE <<Ev("valid_forward", k, -1), Ev("valid_loss", k, -1)>>
         \o ValidOps(k + 1, n)

\* the sum of the statistics of the validation batches k .. n - 1
RECURSIVE ValidStats(_, _, _)
ValidStats(k, n, q) ==
    IF k >= n THEN Statistics
    ELSE AddStats(monolithic_compute_loss(k, q), ValidStats(k + 1, n, q))

\* validate has returned to its caller
ValidateReturned == pc \in {"val_done", "epoch_val_done"}

\* the mode during the batches, and the operations and the result of a
\* validation that has returned
C13_Returned ==
    /\ pc = "validate_batch" => model_mode = "eval"
    /\ ValidateReturned =>
          LET n == Len(events)
              m == 2 * n_valid + 2
          IN /\ n >= m
             /\ SubSeq(events, n - m + 1, n) =
                   <<Ev("eval", -1, -1)>> \o ValidOps(0, n_valid)
                   \o <<Ev("train", -1, -1)>>
             /\ model_mode = "train"
             /\ val_stats = ValidStats(0, n_valid, val_q)

\* no step of validate touches the gradients, the parameters or the
\* decoder state
C13_Step ==
    pc \in {"validate", "validate_batch"} =>
        /\ grad' = grad
        /\ applied' = applied
        /\ dec_state' = dec_state

\* C13: a validate that returns normally puts the model in evaluation mode
\* before the first batch, evaluates every validation batch exactly once
\* and in order with no zero_grad, backward or optimizer step in between
\* (gradients and parameters are left as they were), puts the model back
\* in training mode and returns the sum of the per-batch statistics.
C13_ValidateEvaluatesOnly == []C13_Returned /\ [][C13_Step]_vars

\* a mid-epoch validation of two batches returned after some training
C13_Witness ==
    /\ pc = "val_done"
    /\ n_valid = 2
    /\ val_stats.n_words = 5
    /\ val_stats.loss = 5 * val_q
    /\ CountOp(events, "step") > 0
    /\ Last(events) = Ev("train", -1, -1)
    /\ model_mode = "train"

\* C14: when validate is interrupted by an error on a batch, the model is
\* nevertheless back in training mode.
C14_TrainModeRestoredOnError ==
    pc = "Exception" => model_mode = "train"

\* validate was invoked by train and its result is not yet forwarded
InValidation ==
    pc \in {"validate", "validate_batch", "val_done"} /\ val_ret = "train"

\* C15: in EarlyStoppingTrainer.train with a validation source, validate
\* is invoked exactly when, right after a batch is consumed, the counter of
\* batches since the last validation equals start_val_after_batches; the
\* counter is then 0 again, so it never exceeds start_val_after_batches, and
\* every validation result is forwarded to the patience exactly once.
C15_ValidationEveryStartVal ==
    (cls = "EarlyStoppingTrainer" /\ InTrain) =>
        LET sv == trainer.start_val_after_batches
            nv == Len(val_log)
        IN /\ current_batches_processed \in 0 .. sv
           /\ pc = "es_for_batch" => current_batches_processed < sv
           /\ pc = "validate" => current_batches_processed = 0
           /\ nv > 0 => val_log[1].seen \in 1 .. sv
           /\ \A n \in 1 .. nv - 1 :
                 val_log[n + 1].seen = val_log[n].seen + sv
           /\ (nv > 0 /\ ~InValidation) =>
                 seen = Last(val_log).seen + current_batches_processed
           /\ (nv > 0 /\ InValidation) => seen = Last(val_log).seen + sv
           /\ CountOp(events, "eval") =
                 nv + (IF pc \in {"validate_batch", "val_done"} THEN 1 ELSE 0)
           /\ Len(valid_stats_epoch) = nv
           /\ Len(obs) >= nv
           /\ \A n \in 1 .. nv :
                 /\ valid_stats_epoch[n] = val_log[n].valid_stats
                 /\ obs[Len(obs) - nv + n] =
                       Statistics_ppl(val_log[n].valid_stats)

\* the second epoch of a run validating every two batches: one batch was
\* carried over from the first epoch, so the validations come after the
\* first and the third batch
C15_Witness ==
    /\ cls = "EarlyStoppingTrainer"
    /\ pc = "es_for_batch"
    /\ trainer.start_val_after_batches = 2
    /\ epoch = 2
    /\ Len(val_log) = 2
    /\ val_log[1].seen = 1
    /\ val_log[2].seen = 3
    /\ current_batches_processed = 0
    /\ Len(obs) >= 3

\* the checkpoints dropped by `by` for the mid-epoch validation n of the
\* current epoch
CheckpointsOf(by, n) ==
    {m \in 1 .. Len(checkpoints) :
        /\ checkpoints[m].by \in by
        /\ checkpoints[m].validation = n
        /\ checkpoints[m].valid_stats = val_log[n].valid_stats}

\* train itself calls drop_checkpoint once for an IMPROVING validation and
\* not at all for another one
TrainDropsIffImproving ==
    \A n \in 1 .. Len(val_log) :
        Cardinality(CheckpointsOf({"train"}, n)) =
            (IF val_log[n].status = IMPROVING THEN 1 ELSE 0)

\* C16: after a mid-epoch validation a regular checkpoint is persisted
\* with drop_checkpoint if and only if the verdict of that validation is
\* IMPROVING; none is written for a verdict DECREASING or STOPPED.
C16_CheckpointIffImproving ==
    \A n \in 1 .. Len(val_log) :
        (CheckpointsOf({"train", "train_model"}, n) # {})
            <=> (val_log[n].status = IMPROVING)

\* the last mid-epoch validation of this call of train gave STOPPED
StoppedInTrain ==
    /\ cls = "EarlyStoppingTrainer"
    /\ InTrain
    /\ val_log # <<>>
    /\ Last(val_log).status = STOPPED

\* after STOPPED no further batch is taken from the training iterator
StoppedConsumesNoBatch ==
    StoppedInTrain => seen = Last(val_log).seen

\* C17: once a mid-epoch validation gives STOPPED, train halts at once: up
\* to its return no further batch is consumed and no forward pass, backward
\* pass or optimizer step is made, whatever grad_accum_count and the number
\* of batches pending in the current group.
C17_HaltsImmediatelyOnStopped ==
    StoppedInTrain =>
        /\ seen = Last(val_log).seen
        /\ Len(events) = Last(val_log).ops

(***************************************************************************)
(* Claims about shardVariables, collectGrads and MemoryEfficientLoss.loss, *)
(* checked under SpecLoss.                                                 *)
(***************************************************************************)
\* the variable set was built and shardVariables has returned or raised
Sharded ==
    /\ pc \in {"for_shard", "loss_returned", "IndexError", "KeyError",
               "RuntimeError"}
    /\ DOMAIN original # {}

\* the tensors of the variable set have the same number of rows
SameExtent ==
    \A k1, k2 \in DOMAIN original :
        Len(original[k1].rows) = Len(original[k2].rows)

\* the rows of the tensor k in the shards i .., in order
RECURSIVE ShardRows(_, _)
ShardRows(k, i) ==
    IF i > Len(shards) THEN <<>>
    ELSE shards[i][k].rows \o ShardRows(k, i + 1)

\* C24: for every extent n >= 1 of the tensors along the first axis and
\* every shard size s > 0, shardVariables makes ceil(n / s) shards, every
\* shard but the last has s rows, the last has between 1 and s, every shard
\* holds a slice of every tensor of the variable set, and the shards of a
\* tensor put together in order are the tensor.
C24_ShardsPartitionTensors ==
    (Sharded /\ SameExtent) =>
        LET n == Len(original["out_t"].rows)
            sz == me_loss.max_batches
        IN /\ pc # "IndexError"
           /\ Len(shards) = CeilDiv(n, sz)
           /\ \A i \in 1 .. Len(shards) :
                 /\ DOMAIN shards[i] = DOMAIN original
                 /\ \A k \in DOMAIN original :
                       /\ i < Len(shards) => Len(shards[i][k].rows) = sz
                       /\ Len(shards[i][k].rows) \in 1 .. sz
                       /\ shards[i][k].lo = (i - 1) * sz
           /\ \A k \in DOMAIN original :
                 /\ ShardRows(k, 1) = original[k].rows
                 /\ dummies[k].rows = original[k].rows

\* three rows of six tensors cut into a shard of two rows and one of one
C24_Witness ==
    /\ pc = "for_shard"
    /\ SameExtent
    /\ Cardinality(DOMAIN original) = 6
    /\ Len(original["targ_t"].rows) = 3
    /\ me_loss.max_batches = 2
    /\ Len(shards) = 2
    /\ Len(shards[2]["attn_t"].rows) = 1

\* C25: if the tensors of the variable set do not all have the same extent
\* along the sharding axis, the call is rejected with an error before any
\* shard is created and before any loss is computed; it never goes on with
\* shards that lack a tensor and never skips a loss term.
C25_MismatchRejectedBeforeSharding ==
    (Sharded /\ ~SameExtent) =>
        /\ pc \in {"IndexError", "KeyError", "RuntimeError"}
        /\ shards = <<>>
        /\ me_events = <<>>

\* the keys of attns an enabled loss term needs: the coverage term needs
\* the coverage and the copy attention
AttnsNeeded ==
    (IF me_loss.coverage_loss THEN {"coverage", "copy"} ELSE {})
    \cup (IF me_loss.copy_loss THEN {"copy"} ELSE {})
    \cup (IF me_loss.exhaustion_loss THEN {"upper_bounds"} ELSE {})
    \cup (IF me_loss.fertility_loss
            THEN {"true_fertility_vals", "predicted_fertility_vals"}
            ELSE {})

\* a tensor needed by an enabled loss term is missing from attns
NeededMissing == AttnsNeeded \ DOMAIN me_attns # {}

\* without that, the coverage term finds the copy attention it needs
\* only if the copy term is enabled too
MissingCaught ==
    (pc # "loss_new" /\ NeededMissing
     /\ (me_loss.coverage_loss => me_loss.copy_loss)) =>
        /\ pc = "KeyError"
        /\ me_events = <<>>

\* C26: if a loss term is enabled (copy, coverage, exhaustion, fertility)
\* and an auxiliary tensor it needs is missing, loss fails with an error
\* before the loss of any shard is computed and before any backward pass,
\* for every combination of enabled terms, coverage without copy attention
\* included.
C26_MissingTensorFailsFirst ==
    (pc # "loss_new" /\ NeededMissing) =>
        /\ pc = "KeyError"
        /\ me_events = <<>>

\* C27: in evaluation mode the sharded loss triggers no backward pass for
\* any shard, no dummy and no variable gets a gradient, and the call
\* returns an empty gradient buffer with the statistics.
C27_EvalHasNoBackward ==
    me_loss.eval =>
        /\ \A e \in 1 .. Len(me_events) : me_events[e].op = "loss"
        /\ \A k \in DOMAIN dummies :
              /\ dummies[k].grad = <<>>
              /\ ~(original[k].requires_grad /\ dummies[k].requires_grad)
        /\ \A k \in DOMAIN original : original[k].grad = <<>>
        /\ pc = "loss_returned" =>
              /\ me_ret.inputs = <<>>
              /\ me_ret.grads = <<>>
              /\ me_ret.stats = me_stats
              /\ Len(me_events) = Len(shards)

\* an evaluation of three rows in two shards, on outputs that require a
\* gradient, with every loss term enabled
C27_Witness ==
    /\ pc = "loss_returned"
    /\ me_loss.eval
    /\ me_outputs.requires_grad
    /\ me_loss.copy_loss /\ me_loss.coverage_loss
    /\ me_loss.exhaustion_loss /\ me_loss.fertility_loss
    /\ Len(shards) = 2
    /\ Len(me_events) = 2
    /\ me_ret.stats.n_words > 0

\* the statistics of the call made on one shard that holds every row
Unsharded ==
    ShardStats(me_loss,
               [k \in DOMAIN original |->
                   [lo |-> 0, rows |-> original[k].rows]])

\* the words and the correct predictions counted do not depend on the
\* shard size, and neither does the loss as long as no term reads one
\* row of each shard
CountsSameForEveryShardSize ==
    (pc = "loss_returned" /\ SameExtent) =>
        /\ me_ret.stats.n_words = Unsharded.n_words
        /\ me_ret.stats.n_correct = Unsharded.n_correct
        /\ (~me_loss.exhaustion_loss /\ ~me_loss.fertility_loss) =>
              me_ret.stats.loss = Unsharded.loss

\* C28: for the same batch, outputs and targets, the totals the sharded
\* loss returns (n_words, n_correct and the sum of the losses of the
\* shards) are the same for every shard size, and equal to the totals of
\* the computation on one shard.
C28_TotalsSameForEveryShardSize ==
    (pc = "loss_returned" /\ SameExtent) =>
        /\ me_ret.stats.n_words = Unsharded.n_words
        /\ me_ret.stats.n_correct = Unsharded.n_correct
        /\ me_ret.stats.loss = Unsharded.loss

\* the positions <<row, sentence>> of some rows of targets that are not PAD
NonPadding(targ) ==
    UNION {{<<r, c>> : c \in {x \in 1 .. Len(targ[r]) : targ[r][x] # PAD}} :
             r \in 1 .. Len(targ)}

\* those of them where the prediction is the target
Matches(out, targ) ==
    {p \in NonPadding(targ) : out[p[1]][p[2]] = targ[p[1]][p[2]]}

\* the shards whose statistics the loop has added
ShardsScored == 1 .. (shard_i - 1)

\* C29: for every shard, n_words is the number of target positions that
\* are not PAD, and n_correct the number of positions that are not PAD
\* and whose arg-max prediction is the target; so n_correct <= n_words,
\* a shard of padding adds 0 to both, and the targets [[0,3],[2,0]] with
\* PAD = 0 give n_words = 2.  The statistics of the call are the sums of
\* these counts over the shards scored.
C29_ScoreCountsNonPadding ==
    /\ \A i \in 1 .. Len(shards) :
          ShardFailure(me_loss, shards[i]).raised = "None" =>
              LET st == ShardStats(me_loss, shards[i])
                  targ == shards[i]["targ_t"].rows
                  out == shards[i]["out_t"].rows
              IN /\ st.n_words = Cardinality(NonPadding(targ))
                 /\ st.n_correct = Cardinality(Matches(out, targ))
                 /\ st.n_correct <= st.n_words
                 /\ (\A r \in 1 .. Len(targ) :
                        \A c \in 1 .. Len(targ[r]) : targ[r][c] = PAD)
                       => st.n_words = 0 /\ st.n_correct = 0
                 /\ targ = <<(<<0, 3>>), (<<2, 0>>)>> => st.n_words = 2
    /\ me_stats.n_words =
          Cardinality(UNION {{<<i>> \o p :
                                p \in NonPadding(shards[i]["targ_t"].rows)} :
                               i \in ShardsScored})
    /\ me_stats.n_correct =
          Cardinality(UNION {{<<i>> \o p :
                                p \in Matches(shards[i]["out_t"].rows,
                                              shards[i]["targ_t"].rows)} :
                               i \in ShardsScored})
    /\ me_stats.n_correct <= me_stats.n_words

\* the call has scored the shard of targets [[0,3],[2,0]], where one of
\* the two words is predicted, and a shard after it
C29_Witness ==
    /\ pc = "loss_returned"
    /\ Len(shards) = 2
    /\ shards[1]["targ_t"].rows = <<(<<0, 3>>), (<<2, 0>>)>>
    /\ shards[1]["out_t"].rows = <<(<<0, 3>>), (<<3, 0>>)>>
    /\ me_ret.stats.n_words = 3
    /\ me_ret.stats.n_correct = 2

\* the call has scored a shard of padding, which left the counts at 0
C29_PaddingShardScored ==
    /\ pc = "for_shard"
    /\ shard_i = 2
    /\ shards[1]["targ_t"].rows = <<(<<PAD, PAD>>)>>
    /\ me_stats.n_words = 0
    /\ me_stats.n_correct = 0

\* C30: the gradient buffer the sharded loss returns holds exactly the
\* tensors of the variable set whose dummy got a gradient that is not
\* None; inputs and grads have the same length, the i-th gradient is that
\* of the dummy of the i-th input, no input is returned twice, and a
\* tensor without a gradient, like the targets, is never returned.
C30_GradsOfDummiesWithGradient ==
    pc = "loss_returned" =>
        LET inputs == me_ret.inputs
            grads == me_ret.grads
        IN /\ Len(inputs) = Len(grads)
           /\ {inputs[i] : i \in 1 .. Len(inputs)}
                 = {k \in DOMAIN original : dummies[k].grad # <<>>}
           /\ \A i \in 1 .. Len(inputs) :
                 /\ grads[i] = dummies[inputs[i]].grad
                 /\ grads[i] # <<>>
                 /\ Len(grads[i]) = Len(original[inputs[i]].rows)
                 /\ original[inputs[i]].requires_grad
           /\ \A i, j \in 1 .. Len(inputs) : inputs[i] = inputs[j] => i = j
           /\ \A i \in 1 .. Len(inputs) :
                 inputs[i] \notin {"targ_t", "align_t",
                                   "true_fertility_vals_t"}

\* a training call on eight tensors in two shards has returned the five
\* that got a gradient, and not the targets
C30_Witness ==
    /\ pc = "loss_returned"
    /\ ~me_loss.eval
    /\ Cardinality(DOMAIN original) = 8
    /\ Len(shards) = 2
    /\ Len(me_ret.inputs) = 5
    /\ Len(me_ret.grads) = 5
    /\ me_ret.inputs[1] = "out_t"
    /\ dummies["targ_t"].grad = <<>>

\* the divisor of every backward pass is batch.batchSize, whatever the
\* normalization method
DividedByBatchSize ==
    \A e \in 1 .. Len(me_events) :
        me_events[e].op = "backward" =>
            /\ me_events[e].div = me_batch.batchSize
            /\ e > 1
            /\ me_events[e - 1]
                  = [op |-> "loss", shard |-> me_events[e].shard]

\* C31: in training mode the loss of each shard is divided, before its
\* backward pass, by the normalization the trainer computed for the
\* accumulation group: the sentences of the group under norm_method
\* sents, its target tokens that are not padding under tokens.
C31_LossDividedByNormalization ==
    \A e \in 1 .. Len(me_events) :
        me_events[e].op = "backward" =>
            me_events[e].div = normalization

\* the statistics of the shards i .. n of the call, merged in order
RECURSIVE ScoredUpTo(_, _, _)
ScoredUpTo(acc, i, n) ==
    IF i > n THEN acc
    ELSE ScoredUpTo(Loss_Statistics_update(acc,
                                           ShardStats(me_loss, shards[i])),
                    i + 1, n)

\* C32: the shards of a call are processed one after another from left
\* to right: when the loss of a shard starts, the loss, the score, the
\* merge of the statistics and, in training, the backward pass of every
\* shard before it are done and nothing of a later shard is; the
\* gradients are collected only after the last shard.
C32_ShardsOneAfterAnother ==
    pc \in {"for_shard", "loss_returned"} =>
        LET done == shard_i - 1
            per == IF me_loss.eval THEN 1 ELSE 2
            n == Len(dummies["out_t"].rows)
            reached == IF done * me_loss.max_batches < n
                         THEN done * me_loss.max_batches ELSE n
        IN /\ done \in 0 .. Len(shards)
           /\ Len(me_events) = per * done
           /\ \A i \in 1 .. done :
                 /\ me_events[per * (i - 1) + 1]
                       = [op |-> "loss", shard |-> i]
                 /\ ~me_loss.eval =>
                       /\ me_events[per * i].op = "backward"
                       /\ me_events[per * i].shard = i
                 /\ shards[i]["out_t"].lo = (i - 1) * me_loss.max_batches
           /\ me_stats = ScoredUpTo(Loss_Statistics, 1, done)
           /\ (~me_loss.eval /\ done > 0) =>
                 dummies["out_t"].grad
                   = [r \in 1 .. n |-> IF r <= reached THEN 1 ELSE 0]
           /\ done = 0 => dummies["out_t"].grad = <<>>
           /\ pc = "for_shard" =>
                 me_ret = [stats |-> Loss_Statistics, inputs |-> <<>>,
                           grads |-> <<>>]
           /\ pc = "loss_returned" =>
                 /\ done = Len(shards)
                 /\ me_ret.stats = me_stats

\* a training call on three shards of one row, about to start the third:
\* the first two shards have their loss and their backward pass
C32_Witness ==
    /\ pc = "for_shard"
    /\ ~me_loss.eval
    /\ Len(shards) = 3
    /\ shard_i = 3
    /\ Len(me_events) = 4
    /\ me_events[4].op = "backward"
    /\ me_events[4].shard = 2
    /\ dummies["out_t"].grad = <<1, 1, 0>>
    /\ me_stats.n_words > 0

(***************************************************************************)
(* Claims about the points at which EarlyStoppingTrainer.train validates   *)
(* and stops, about the resets and about the validations of an epoch,      *)
(* checked under SpecEarlyStop, and about the carried decoder state,       *)
(* checked under SpecAccum.                                                *)
(***************************************************************************)
\* the training operations among some operations
TrainOps(evs) ==
    SelectSeq(evs, LAMBDA e : e.op \in {"zero_grad", "forward", "backward",
                                        "step"})

\* the windows <<i, j>> some operations ran the forward pass of, in order
ForwardWindows(evs) ==
    LET f == SelectSeq(evs, LAMBDA e : e.op = "forward")
    IN [n \in 1 .. Len(f) |-> <<f[n].i, f[n].j>>]

\* the operations evs end at a safe point: every zeroing is followed by
\* its optimizer step, the last training operation is a step, and the
\* windows run are all the windows of the first m batches, for some m
SafePoint(evs) ==
    LET t == TrainOps(evs)
    IN t # <<>> =>
          /\ t[Len(t)].op = "step"
          /\ CountOp(t, "zero_grad") = CountOp(t, "step")
          /\ \A n \in 1 .. Len(t) - 1 :
                t[n].op = "step" => t[n + 1].op = "zero_grad"
          /\ \E m \in 1 .. Len(Flatten(groups)) :
                ForwardWindows(t) = WindowsOf(SubSeq(Flatten(groups), 1, m))

\* C33: in every run of EarlyStoppingTrainer.train a validation starts,
\* and the STOPPED exit is taken, only at a safe point: never between the
\* zeroing of a group's gradients and the optimizer step of that group,
\* nor between two windows of a batch.
C33_ValidationAtSafePoints ==
    (cls = "EarlyStoppingTrainer" /\ InTrain) =>
        /\ \A k \in 1 .. Len(events) :
              events[k].op = "eval" => SafePoint(SubSeq(events, 1, k - 1))
        /\ pc \in {"validate", "es_break"} => SafePoint(events)
        /\ pc = "es_break" =>
              /\ events[Len(events)] = Ev("train", -1, -1)
              /\ Len(events) = Last(val_log).ops

\* the STOPPED exit taken after a validation that followed the second of
\* the two windows of a batch
C33_Witness ==
    /\ cls = "EarlyStoppingTrainer"
    /\ pc = "es_break"
    /\ trainer.trunc_size = 2
    /\ \E k \in 2 .. Len(events) :
          /\ events[k].op = "eval"
          /\ events[k - 1].op = "step"
          /\ events[k - 1].j = 2
    /\ CountOp(events, "eval") >= 1

\* a validation started while a batch of an unfinished group of two is
\* waiting, after the step of the group before
C33_WitnessPending ==
    /\ cls = "EarlyStoppingTrainer"
    /\ pc = "validate"
    /\ val_ret = "train"
    /\ trainer.grad_accum_count = 2
    /\ Len(true_batchs) = 1
    /\ CountOp(events, "step") = 1

\* the best of the scores ss[1 .. n], and the number of scores strictly
\* worse than the best counted since the last strict improvement
RECURSIVE BestOf(_, _)
BestOf(ss, n) ==
    IF n = 0 THEN Inf
    ELSE IF ss[n] < BestOf(ss, n - 1) THEN ss[n] ELSE BestOf(ss, n - 1)

RECURSIVE WorseRun(_, _)
WorseRun(ss, n) ==
    IF n = 0 THEN 0
    ELSE IF ss[n] < BestOf(ss, n - 1) THEN 0
    ELSE IF ss[n] > BestOf(ss, n - 1) THEN WorseRun(ss, n - 1) + 1
    ELSE WorseRun(ss, n - 1)

\* the patience of the run exists
PatienceBuilt ==
    cls = "EarlyStoppingTrainer" /\ pc \notin {"new", "AssertionError"}

\* the run is stopped exactly when the count reaches the tolerance, at the
\* validation that brought it there; the patience has seen every
\* mid-epoch validation of the call once; a stopped run starts no epoch,
\* takes no batch and writes no checkpoint of the epoch
StopsWhenToleranceExhausted ==
    PatienceBuilt =>
        /\ has_stopped <=> WorseRun(obs, Len(obs)) >= tolerance
        /\ has_stopped =>
              /\ WorseRun(obs, Len(obs)) = tolerance
              /\ WorseRun(obs, Len(obs) - 1) = tolerance - 1
              /\ pc \notin {"constructed", "es_for_batch", "val_check",
                            "validate", "validate_batch", "val_done",
                            "epoch_val_done"}
              /\ \A m \in 1 .. Len(checkpoints) :
                    checkpoints[m].by # "train_model"
              /\ StoppedInTrain => seen = Last(val_log).seen
        /\ (InTrain /\ pc # "val_done") =>
              /\ Len(obs) >= Len(val_log)
              /\ \A n \in 1 .. Len(val_log) :
                    obs[Len(obs) - Len(val_log) + n]
                      = Statistics_ppl(val_log[n].valid_stats)

\* C34: with a tolerance t >= 1 the run halts right after the validation
\* at which the number of scores strictly worse than the best, counted
\* since the last strict improvement, reaches t: the patience is called
\* once per validation, and after STOPPED no epoch is started, no batch
\* is trained and no checkpoint of the epoch is written.
C34_HaltsWhenToleranceExhausted ==
    /\ StopsWhenToleranceExhausted
    /\ (PatienceBuilt /\ has_stopped) =>
          /\ pc \in {"es_break", "return", "epoch_step", "done"}
          /\ StoppedInTrain =>
                CountOp(events, "forward") + CountOp(events, "step")
                  = CountOp(SubSeq(events, 1, Last(val_log).ops), "forward")
                    + CountOp(SubSeq(events, 1, Last(val_log).ops), "step")

\* C35: in Trainer and APETrainer the carried decoder state never crosses
\* a batch boundary and never carries gradient across a window boundary:
\* the first window of every batch is given no state, every other window
\* the state its predecessor in the same batch returned, detached, or none
\* if that window returned none.
C35_CarriedStateStaysInBatch ==
    pc = "ga_window" =>
        LET batch == true_batchs[ga_k]
            trunc == EffectiveTrunc(batch.target_size)
        IN /\ ga_j = 0 => dec_state = NoState
           /\ ga_j > 0 =>
                 \/ dec_state = NoState
                 \/ dec_state = [i |-> batch.i, j |-> ga_j - trunc,
                                 detached |-> TRUE]

\* the second window of a batch is about to get the detached state of the
\* first window of that batch
C35_Witness ==
    /\ pc = "ga_window"
    /\ cls = "APETrainer"
    /\ trainer.trunc_size = 2
    /\ ga_j = 2
    /\ true_batchs[ga_k].target_size = 4
    /\ dec_state = [i |-> true_batchs[ga_k].i, j |-> 0, detached |-> TRUE]

\* the second batch of a group is about to start with no state
C35_WitnessNextBatch ==
    /\ pc = "ga_window"
    /\ cls = "Trainer"
    /\ ga_k = 2
    /\ ga_j = 0
    /\ dec_state = NoState
    /\ CountOp(events, "forward") = 1

\* train is at the head of its loop with no batch of a group waiting
AtGroupStart == pc = "es_for_batch" /\ accum = 0

\* train is at the head of its loop before the first batch of the epoch
AtEpochStart == pc = "es_for_batch" /\ seen = 0

\* the batch list and the normalization are empty at the start of every
\* group and of every epoch
GroupStateReset ==
    cls = "EarlyStoppingTrainer" =>
        /\ AtGroupStart => true_batchs = <<>> /\ normalization = 0
        /\ AtEpochStart =>
              /\ true_batchs = <<>>
              /\ normalization = 0
              /\ accum = 0
              /\ idx = 0
              /\ valid_stats_epoch = <<>>

\* C36: the batch list and the normalization are empty and zero at the
\* start of every accumulation group and of every epoch, and the count of
\* batches since the last validation is 0 at the start of every epoch,
\* that is of every call of EarlyStoppingTrainer.train.
C36_RunStateResetAtBoundaries ==
    cls = "EarlyStoppingTrainer" =>
        /\ AtGroupStart => true_batchs = <<>> /\ normalization = 0
        /\ AtEpochStart =>
              /\ true_batchs = <<>>
              /\ normalization = 0
              /\ current_batches_processed = 0

\* an epoch of an early-stopping run has returned from train without
\* STOPPED, and its validations are complete
EpochComplete ==
    cls = "EarlyStoppingTrainer" /\ pc = "epoch_step" /\ ~has_stopped

\* the scores of the validations of the epoch are the last scores the
\* patience has observed, in order
ObservedThisEpoch ==
    LET n == Len(valid_stats_epoch)
    IN /\ Len(obs) >= n
       /\ \A k \in 1 .. n :
             obs[Len(obs) - n + k] = Statistics_ppl(valid_stats_epoch[k])

\* a completed epoch has a validation: the one validation of the end of
\* the epoch if there was none in it, its mid-epoch validations otherwise
C38_Epoch ==
    EpochComplete =>
        /\ Len(valid_stats_epoch) >= 1
        /\ ObservedThisEpoch
        /\ val_log = <<>> =>
              /\ Len(valid_stats_epoch) = 1
              /\ val_ret = "train_model"
        /\ val_log # <<>> =>
              /\ Len(valid_stats_epoch) = Len(val_log)
              /\ \A k \in 1 .. Len(val_log) :
                    val_log[k].valid_stats = valid_stats_epoch[k]

\* the patience observes a score only together with a validation result
\* added to those of the epoch; train_model validates at the end of an
\* epoch only if the epoch had no validation, and then observes its
\* result once; it observes nothing more before the next epoch
C38_Step ==
    cls = "EarlyStoppingTrainer" =>
        /\ obs' # obs =>
              /\ Len(valid_stats_epoch') = Len(valid_stats_epoch) + 1
              /\ obs' = Append(obs,
                               Statistics_ppl(Last(valid_stats_epoch')))
        /\ (pc = "return" /\ ~has_stopped /\ valid_stats_epoch = <<>>) =>
              pc' = "validate" /\ val_ret' = "train_model"
        /\ (pc = "return" /\ ~has_stopped /\ valid_stats_epoch # <<>>) =>
              pc' = "epoch_step" /\ UNCHANGED <<obs, valid_stats_epoch>>
        /\ (pc = "validate" /\ val_ret = "train_model") =>
              valid_stats_epoch = <<>>
        /\ pc = "epoch_val_done" =>
              /\ pc' = "epoch_step"
              /\ valid_stats_epoch' = <<val_stats>>
              /\ Len(obs') = Len(obs) + 1
        /\ pc = "epoch_step" => UNCHANGED <<obs, valid_stats_epoch>>

\* C38: in an early-stopping run every epoch that completes without
\* STOPPED has fed at least one validation result to the patience: with no
\* mid-epoch validation in the epoch, exactly one end-of-epoch validation
\* is run and observed once by the same patience; with a mid-epoch
\* validation, no end-of-epoch validation or observation is added.
C38_EveryEpochValidated == []C38_Epoch /\ [][C38_Step]_vars

\* an epoch without a mid-epoch validation has been validated at its end
C38_Witness ==
    /\ EpochComplete
    /\ val_log = <<>>
    /\ val_ret = "train_model"
    /\ Len(valid_stats_epoch) = 1
    /\ Len(obs) >= 1
    /\ Last(obs) = Statistics_ppl(valid_stats_epoch[1])

\* an epoch with two mid-epoch validations has no validation at its end
C38_WitnessMidEpoch ==
    /\ EpochComplete
    /\ Len(val_log) = 2
    /\ Len(valid_stats_epoch) = 2
    /\ val_ret = "train"

(***************************************************************************)
(* Claims about the order in which DatasetLazyIter delivers batches and    *)
(* about the dataset the consumer's loss holds, checked under SpecIter.    *)
(***************************************************************************)
\* the batches of the datasets ds[d ..], dataset after dataset
RECURSIVE BatchesFrom(_, _)
BatchesFrom(ds, d) ==
    IF d > Len(ds) THEN <<>>
    ELSE [k \in 1 .. ds[d] |-> DatasetBatch(d, k)] \o BatchesFrom(ds, d + 1)

\* the batches delivered so far are the first batches of the datasets in
\* the supplied order, and all of them once the iteration has stopped
DeliveredInOrderOnce ==
    LET all == BatchesFrom(datasets, 1)
    IN /\ Len(delivered) <= Len(all)
       /\ \A n \in 1 .. Len(delivered) : delivered[n].batch = all[n]
       /\ pc = "it_done" => Len(delivered) = Len(all)

\* get_cur_dataset() returned, at each delivery, the dataset of the batch
CurDatasetAtDelivery ==
    \A n \in 1 .. Len(delivered) :
        delivered[n].cur_dataset = delivered[n].batch.dataset

\* the loss held, at each of its calls, the dataset of the batch it scored
LossHoldsDatasetOfBatch ==
    \A n \in 1 .. Len(scored) :
        scored[n].cur_dataset = scored[n].batch.dataset

\* What holds of the iterator: batches are delivered dataset by dataset in
\* the supplied order, each once, get_cur_dataset() returns the dataset of
\* the batch at its delivery, and the loss holds the dataset of the batch
\* it scores in validation and in training without accumulation.
DeliveryMatchesCurDataset ==
    /\ DeliveredInOrderOnce
    /\ CurDatasetAtDelivery
    /\ (~is_train \/ grad_accum_count = 1) => LossHoldsDatasetOfBatch

\* C37: DatasetLazyIter delivers the batches dataset by dataset in the
\* supplied order, each once, get_cur_dataset() returns at each delivery
\* the dataset of the batch delivered, and the dataset the trainer stores
\* in its loss is the dataset of every batch trained or validated.
C37_CurDatasetMatchesBatch ==
    /\ DeliveredInOrderOnce
    /\ CurDatasetAtDelivery
    /\ LossHoldsDatasetOfBatch

(***************************************************************************)
(* A claim about the best score of EarlyStopping and the saves of the best *)
(* model, checked under SpecPatience.                                      *)
(***************************************************************************)
\* the minimum of the scores ss, float("inf") if there is none
MinScore(ss) ==
    IF ss = <<>> THEN Inf
    ELSE CHOOSE m \in {ss[k] : k \in 1 .. Len(ss)} :
            \A k \in 1 .. Len(ss) : m <= ss[k]

\* the observations that were strictly below every score before them
Lowerings(ss) ==
    {k \in 1 .. Len(ss) : ss[k] < MinScore(SubSeq(ss, 1, k - 1))}

\* best_score is the minimum observed, and the best model has been saved
\* once for each observation that lowered it
C39_State ==
    /\ best_score = MinScore(obs)
    /\ best_saves = Cardinality(Lowerings(obs))

\* an observation never raises best_score, and saves the best model once
\* if it lowers best_score and not at all otherwise
C39_Step ==
    /\ best_score' <= best_score
    /\ best_saves' = best_saves + (IF best_score' < best_score THEN 1 ELSE 0)

\* C39: after any sequence of observations best_score is the minimum of
\* the scores observed (infinity if none), it never increases, and the
\* best model has been saved exactly once for each observation that
\* strictly lowered best_score and never otherwise.
C39_BestScoreIsMinimum == []C39_State /\ [][C39_Step]_vars

\* a first score, a lower one, an equal one and a higher one have been
\* observed: two saves
C39_Witness ==
    /\ obs = <<10, 9, 9, 12>>
    /\ best_score = 9
    /\ best_saves = 2
====
